---- MODULE Spec2Model ----
(***************************************************************************)
(* The asynchronous paper pipeline of main.py: main_async consumes the     *)
(* metadata stream, starts one process_paper_async task per record and     *)
(* gathers the tasks; every task moves its paper through filter, download, *)
(* OCR, LLM analysis, note and archive, each blocking call offloaded to    *)
(* the executor, the first four behind an asyncio.Semaphore.               *)
(*                                                                         *)
(* Spec is that pipeline with every stage call seen from outside.          *)
(* PaperSpec follows one paper and looks into extract_ocr_only,            *)
(* analyze_with_llm and upload_paper_linked; FetchSpec is download_pdf     *)
(* called repeatedly on one path; ZoteroSpec is the collection cache of    *)
(* zotero_ops under concurrent upload threads; ReportSpec is              *)
(* generate_daily_report called with lists of records; GateSpec is the     *)
(* pipeline of a run with --skip-deep-analysis; TokenSpec is the           *)
(* token_usage dict of paper_analyzer under the stage calls of the papers; *)
(* DirSpec is the naming of the papers' directories.  LiveSpec is Spec     *)
(* with the event loop, the fetch_meta thread and the executor running on. *)
(* SelectSpec is select_key_figures_for_report and the figures of the note *)
(* over lists of candidates, CropSpec the way of a page's regions through  *)
(* extract_key_figures, crop_region, selection and note. ParseSpec is      *)
(* parse_ocr_response over OCR responses written out character by         *)
(* character.  BackoffSpec is the retry loop of download_pdf with its      *)
(* waits, for every retry budget; TextSpec is the paper text that          *)
(* analyze_paper_content puts into its prompt.  PoolSpec is the OCR stage  *)
(* of all papers with the page pool of each extract_ocr_only call.         *)
(***************************************************************************)
EXTENDS Integers, Sequences, FiniteSets, TLC

\* ---------------------------------------------------------------- bounds
NumPapers == 2          \* most identifiers the discoverer returns
filter_limit == 1       \* config concurrency.paper_workers
ocr_limit == 1          \* config concurrency.ocr_workers
llm_limit == 1          \* config concurrency.llm_workers
MaxFetchCalls == 2      \* calls of download_pdf on one target path
MaxPages == 2           \* page images of one paper (config analysis.max_pages)
ocr_workers == 2        \* threads of the page pool in extract_ocr_only
NumCategories == 2      \* category names the filter can give
MaxCollCalls == 3       \* calls of get_or_create_collection_id in one run
MaxInterested == 11     \* interested records handed to generate_daily_report
MaxIgnored == 1         \* ignored records handed to generate_daily_report
NumGatePapers == 3      \* identifiers of a run with --skip-deep-analysis
MaxTitleLen == 41       \* characters of a paper title
MaxFigures == 5         \* figure candidates of one paper
MaxFiguresCfg == 4      \* largest analysis.max_figures_per_paper looked at
MaxItems == 2           \* regions of one OCR'd page
MaxTags == 2            \* region tags of one OCR response
MaxTextLen == 2         \* characters of the text after a region tag
MaxRetryBudget == 4     \* largest max_retries download_pdf is called with
MaxRetryDelay == 2      \* largest retry_delay, in seconds
MaxLength == 30         \* largest analysis.max_ocr_text_length looked at
MaxPoolPages == 3       \* page images of a paper whose page pool is looked into

\* ------------------------------------------------------ program constants
download_limit == 10
llm_max_retries == 3
dl_max_retries == 3
max_ocr_retries == 2
max_llm_retries == 2
MinPdfBytes == 10240
ocr_max_retries == 3
content_max_retries == 3
upload_retries == 3
batch_size == 10
ignored_shown == 15
title_cut == 40

Papers == 1..NumPapers
Gates == {"filter", "download", "ocr", "llm"}
Sentinel == 0
Pages == 1..MaxPages
PoolPages == 1..MaxPoolPages
Names == 1..NumCategories
root_id == 0

VARIABLES
    arxiv_ids,              \* identifiers returned by get_daily_papers
    skip_deep,              \* --skip-deep-analysis
    mainpc,                 \* position of main_async
    metaIdx,                \* next identifier the fetch_meta thread handles
    metaEnded,              \* fetch_meta has put the end marker
    meta_queue,             \* asyncio.Queue of records, Sentinel = (None, None)
    async_tasks,            \* tasks in creation order
    results,                \* what asyncio.gather returned
    interested,             \* the buckets handed to generate_daily_report
    ignored,
    reported,               \* generate_daily_report has run
    sem,                    \* value of each asyncio.Semaphore
    pc,                     \* position of each paper's task
    held,                   \* gates a task is inside (async with)
    fut,                    \* the executor future the task awaits
    attempt,                \* loop index of the retry loop inside the pending call
    analysis,               \* result of the filter call
    download_success,       \* result of the download call
    ocr_attempt,
    ocr_result,
    llm_attempt,
    deep_analysis_result,
    ret,                    \* value the task returned
    started,                \* stage calls submitted to the executor, in order
    save_path,              \* the file at download_pdf's target path
    dl_pc,                  \* position inside download_pdf
    dl_attempt,             \* its loop index
    dl_requests,            \* requests.get calls made, per call of download_pdf
    dl_returns,             \* values download_pdf returned, in call order
    dl_log,                 \* branch each pass of the latest call ended in
    ex_pc,                  \* position inside extract_ocr_only
    image_paths,            \* number of page images pdf_to_images returned
    page_state,             \* each page's process_single_page future
    page_attempt,           \* loop index inside call_deepseek_ocr, per page
    page_out,               \* how the page's latest OCR pass ended
    completed,              \* pages in the order as_completed yielded them
    ocr_results,            \* ocr_data['ocr_results'], as page numbers
    an_pc,                  \* position inside analyze_with_llm
    an_attempt,             \* loop index inside analyze_paper_content
    llm_requests,           \* requests analyze_paper_content has sent
    an_analysis,            \* what analyze_paper_content returned
    note_md,                \* the note.md that generate_paper_note wrote
    up_i,                   \* loop index inside upload_paper_linked
    up_log,                 \* how each pass of upload_paper_linked ended
    scanned,                \* get_existing_structure has run
    structure,              \* collection names it returned
    collection_cache,       \* zotero_ops.collection_cache: name -> key
    remote,                 \* collections of the Zotero library, oldest first
    coll,                   \* each thread's call of get_or_create_collection_id
    creates,                \* create_collections requests sent, per name
    rp_interested,          \* the arguments of generate_daily_report
    rp_ignored,
    rp_pc,                  \* position inside generate_daily_report
    rp_i,                   \* index of the interested item its reading loop handles
    papers_notes,           \* papers_notes, as the identifiers of the items
    batch_summaries,        \* what summarize_papers_batch returned, per batch
    rp_calls,               \* LLM calls of the report, in order
    digest,                 \* 00_Daily_Report_CN.md
    token_usage,            \* paper_analyzer.token_usage, the module-level dict
    tk_pc,                  \* position of each paper's extract_ocr_only / analyze_with_llm call
    own_calls,              \* responses the paper's own OCR and LLM requests received
    ocr_data_usage,         \* ocr_data['token_usage'] as extract_ocr_only saved it
    token_info_summary,     \* the counts written into note.md and analysis.json
    meta,                   \* title and first author of each paper's metadata record
    category,               \* analysis['category'] of each paper
    paper_dir,              \* the directory process_paper_async made for the paper
    ocr_items,              \* the regions of one page, as extract_key_figures gets them
    crop_files,             \* crop files that exist in figures_dir
    all_figures,            \* all_key_figures, the figure candidates
    max_figures,            \* config analysis.max_figures_per_paper
    selected_figures,       \* what select_key_figures_for_report returned
    embedded,               \* crop paths of the images generate_paper_note embedded
    fig_pc,                 \* how far the figures have come
    tags,                   \* the region tags and texts the OCR response is made of
    ocr_text,               \* the OCR response, a string of characters
    parse_pc,               \* position of process_single_page around parse_ocr_response
    max_retries,            \* max_retries of the download_pdf call looked into
    retry_delay,            \* its retry_delay
    bk_pc,                  \* position inside that call
    bk_attempt,             \* its loop index
    bk_log,                 \* how each pass ended
    sleeps,                 \* the time.sleep calls it made, in seconds
    ocr_pages,              \* the ocr_results analyze_paper_content is called with
    max_length,             \* config analysis.max_ocr_text_length
    all_text,               \* the paper text put into the prompt
    tx_pc,                  \* position inside analyze_paper_content
    px_pc,                  \* position of each paper's extract_ocr_only call
    px_state,               \* each page task of the paper's ThreadPoolExecutor
    px_attempt,             \* loop index inside call_deepseek_ocr, per page of the paper
    px_submits              \* executor.submit calls made for each page of the paper

vars == <<arxiv_ids, skip_deep, mainpc, metaIdx, metaEnded, meta_queue,
          async_tasks, results, interested, ignored, reported, sem, pc, held,
          fut, attempt, analysis, download_success, ocr_attempt, ocr_result,
          llm_attempt, deep_analysis_result, ret, started,
          save_path, dl_pc, dl_attempt, dl_requests, dl_returns, dl_log,
          ex_pc, image_paths, page_state, page_attempt, page_out, completed,
          ocr_results,
          an_pc, an_attempt, llm_requests, an_analysis, note_md, up_i, up_log,
          scanned, structure, collection_cache, remote, coll, creates,
          rp_interested, rp_ignored, rp_pc, rp_i, papers_notes,
          batch_summaries, rp_calls, digest,
          token_usage, tk_pc, own_calls, ocr_data_usage, token_info_summary,
          meta, category, paper_dir,
          ocr_items, crop_files, all_figures, max_figures, selected_figures, embedded, fig_pc,
          tags, ocr_text, parse_pc,
          max_retries, retry_delay, bk_pc, bk_attempt, bk_log, sleeps,
          ocr_pages, max_length, all_text, tx_pc,
          px_pc, px_state, px_attempt, px_submits>>

mainVars == <<mainpc, async_tasks, results, interested, ignored, reported>>
metaVars == <<metaIdx, metaEnded>>
paperVars == <<sem, pc, held, fut, attempt, analysis, download_success,
               ocr_attempt, ocr_result, llm_attempt, deep_analysis_result,
               ret, started>>
fetchVars == <<save_path, dl_pc, dl_attempt, dl_requests, dl_returns, dl_log>>
ocrVars == <<ex_pc, image_paths, page_state, page_attempt, page_out, completed,
            ocr_results>>
anVars == <<an_pc, an_attempt, llm_requests, an_analysis, note_md>>
upVars == <<up_i, up_log>>
zotVars == <<scanned, structure, collection_cache, remote, coll, creates>>
reportVars == <<rp_interested, rp_ignored, rp_pc, rp_i, papers_notes,
               batch_summaries, rp_calls, digest>>
tokenVars == <<token_usage, tk_pc, own_calls, ocr_data_usage, token_info_summary>>
dirVars == <<meta, category, paper_dir>>
figVars == <<ocr_items, crop_files, all_figures, max_figures, selected_figures, embedded, fig_pc>>
parseVars == <<tags, ocr_text, parse_pc>>
backoffVars == <<max_retries, retry_delay, bk_pc, bk_attempt, bk_log, sleeps>>
textVars == <<ocr_pages, max_length, all_text, tx_pc>>
poolVars == <<px_pc, px_state, px_attempt, px_submits>>
detailVars == <<fetchVars, ocrVars, anVars, upVars, zotVars, reportVars, tokenVars, dirVars, figVars, parseVars, backoffVars, textVars, poolVars>>
fetchRest == <<ocrVars, anVars, upVars, zotVars, reportVars, tokenVars, dirVars, figVars, parseVars, backoffVars, textVars, poolVars>>
ocrRest == <<fetchVars, anVars, upVars, zotVars, reportVars, tokenVars, dirVars, figVars, parseVars, backoffVars, textVars, poolVars>>
anRest == <<fetchVars, ocrVars, upVars, zotVars, reportVars, tokenVars, dirVars, figVars, parseVars, backoffVars, textVars, poolVars>>
upRest == <<fetchVars, ocrVars, anVars, zotVars, reportVars, tokenVars, dirVars, figVars, parseVars, backoffVars, textVars, poolVars>>
zotRest == <<fetchVars, ocrVars, anVars, upVars, reportVars, tokenVars, dirVars, figVars, parseVars, backoffVars, textVars, poolVars>>
reportRest == <<fetchVars, ocrVars, anVars, upVars, zotVars, tokenVars, dirVars, figVars, parseVars, backoffVars, textVars, poolVars>>
tokenRest == <<fetchVars, ocrVars, anVars, upVars, zotVars, reportVars, dirVars, figVars, parseVars, backoffVars, textVars, poolVars>>
dirRest == <<fetchVars, ocrVars, anVars, upVars, zotVars, reportVars, tokenVars, figVars, parseVars, backoffVars, textVars, poolVars>>
figRest == <<fetchVars, ocrVars, anVars, upVars, zotVars, reportVars, tokenVars, dirVars, parseVars, backoffVars, textVars, poolVars>>
parseRest == <<fetchVars, ocrVars, anVars, upVars, zotVars, reportVars, tokenVars, dirVars, figVars, backoffVars, textVars, poolVars>>
backoffRest == <<fetchVars, ocrVars, anVars, upVars, zotVars, reportVars, tokenVars, dirVars, figVars, parseVars, textVars, poolVars>>
textRest == <<fetchVars, ocrVars, anVars, upVars, zotVars, reportVars, tokenVars, dirVars, figVars, parseVars, backoffVars, poolVars>>
poolRest == <<fetchVars, ocrVars, anVars, upVars, zotVars, reportVars, tokenVars, dirVars, figVars, parseVars, backoffVars, textVars>>
pipelineVars == <<arxiv_ids, skip_deep, meta_queue, mainVars, metaVars, paperVars>>

\* ------------------------------------------------------------- semaphores
Semaphore(n) == n

\* a permit is handed out although none is left
CanAcquire_NoCheck(g) == sem[g] >= 0

CanAcquire(g) == sem[g] > 0

Acquired(g) == [sem EXCEPT ![g] = @ - 1]

\* __aexit__ does not give the permit back
Released_Leak(gs) == sem

Released(gs) == [g \in Gates |-> IF g \in gs THEN sem[g] + 1 ELSE sem[g]]

\* ------------------------------------------------------------------- Init
\* main_async and the tasks of the papers ps before anything has run
PipelineStartOver(ps) ==
    /\ mainpc = "start"
    /\ metaIdx = 1
    /\ metaEnded = FALSE
    /\ meta_queue = <<>>
    /\ async_tasks = <<>>
    /\ results = <<>>
    /\ interested = <<>>
    /\ ignored = <<>>
    /\ reported = FALSE
    /\ sem = [g \in Gates |->
                CASE g = "filter" -> Semaphore(filter_limit)
                  [] g = "download" -> Semaphore(download_limit)
                  [] g = "ocr" -> Semaphore(ocr_limit)
                  [] g = "llm" -> Semaphore(llm_limit)]
    /\ pc = [p \in ps |-> "none"]
    /\ held = [p \in ps |-> {}]
    /\ fut = [p \in ps |-> "idle"]
    /\ attempt = [p \in ps |-> 0]
    /\ analysis = [p \in ps |-> "unset"]
    /\ download_success = [p \in ps |-> "unset"]
    /\ ocr_attempt = [p \in ps |-> 0]
    /\ ocr_result = [p \in ps |-> "None"]
    /\ llm_attempt = [p \in ps |-> 0]
    /\ deep_analysis_result = [p \in ps |-> "None"]
    /\ ret = [p \in ps |-> "running"]
    /\ started = [p \in ps |-> <<>>]

PipelineStart == PipelineStartOver(Papers)

\* no call of download_pdf is being looked into
FetchIdle ==
    /\ save_path = [exists |-> FALSE, size |-> 0]
    /\ dl_pc = "idle"
    /\ dl_attempt = 0
    /\ dl_requests = <<>>
    /\ dl_returns = <<>>
    /\ dl_log = <<>>

\* no call of extract_ocr_only is being looked into
OcrIdle ==
    /\ ex_pc = "idle"
    /\ image_paths = 0
    /\ page_state = [i \in Pages |-> "none"]
    /\ page_attempt = [i \in Pages |-> 0]
    /\ page_out = [i \in Pages |-> "none"]
    /\ completed = <<>>
    /\ ocr_results = <<>>

\* no call of analyze_with_llm is being looked into
AnalyzeIdle ==
    /\ an_pc = "idle"
    /\ an_attempt = 0
    /\ llm_requests = 0
    /\ an_analysis = "unset"
    /\ note_md = "absent"

\* no call of upload_paper_linked is being looked into
UploadIdle ==
    /\ up_i = 0
    /\ up_log = <<>>

\* zotero_ops as imported, nothing of the library looked into
ZoteroIdle ==
    /\ scanned = FALSE
    /\ structure = {}
    /\ collection_cache = [n \in {} |-> 0]
    /\ remote = <<>>
    /\ coll = [p \in Papers |-> [pc |-> "idle", name |-> 0, ret |-> 0, calls |-> 0]]
    /\ creates = [n \in Names |-> 0]

\* no call of generate_daily_report is being looked into
ReportIdle ==
    /\ rp_interested = <<>>
    /\ rp_ignored = <<>>
    /\ rp_pc = "idle"
    /\ rp_i = 0
    /\ papers_notes = <<>>
    /\ batch_summaries = <<>>
    /\ rp_calls = <<>>
    /\ digest = [kind |-> "absent", notes |-> 0, overview |-> "none",
                 listed |-> <<>>, table |-> <<>>]

\* paper_analyzer as imported (lines 42-48), no stage call looked into
ZeroUsage == [ocr_calls |-> 0, llm_calls |-> 0]

TokenIdle ==
    /\ token_usage = ZeroUsage
    /\ tk_pc = [p \in Papers |-> "idle"]
    /\ own_calls = [p \in Papers |-> ZeroUsage]
    /\ ocr_data_usage = [p \in Papers |-> 0]
    /\ token_info_summary = [p \in Papers |-> [written |-> FALSE, ocr_calls |-> 0, llm_calls |-> 0]]

\* no directory of a paper is being looked into
DirIdle ==
    /\ meta = [p \in Papers |-> [title |-> <<>>, author |-> <<>>]]
    /\ category = [p \in Papers |-> 0]
    /\ paper_dir = [p \in Papers |-> <<>>]

\* no figure of a paper is being looked into
FigureIdle ==
    /\ ocr_items = <<>>
    /\ crop_files = {}
    /\ all_figures = <<>>
    /\ max_figures = 0
    /\ selected_figures = <<>>
    /\ embedded = <<>>
    /\ fig_pc = "idle"

ParseIdle ==
    /\ tags = <<>>
    /\ ocr_text = <<>>
    /\ parse_pc = "idle"

\* no download_pdf call is looked into for its waits
BackoffIdle ==
    /\ max_retries = 0
    /\ retry_delay = 0
    /\ bk_pc = "idle"
    /\ bk_attempt = 0
    /\ bk_log = <<>>
    /\ sleeps = <<>>

\* no call of analyze_paper_content is looked into for its prompt
TextIdle ==
    /\ ocr_pages = <<>>
    /\ max_length = 0
    /\ all_text = <<>>
    /\ tx_pc = "idle"

\* no page pool of a paper is looked into
PoolIdle ==
    /\ px_pc = [p \in Papers |-> "idle"]
    /\ px_state = [p \in Papers |-> [i \in PoolPages |-> "none"]]
    /\ px_attempt = [p \in Papers |-> [i \in PoolPages |-> 0]]
    /\ px_submits = [p \in Papers |-> [i \in PoolPages |-> 0]]

Init ==
    /\ arxiv_ids \in {1..k : k \in 0..NumPapers}
    /\ skip_deep \in BOOLEAN
    /\ PipelineStart
    /\ FetchIdle
    /\ OcrIdle
    /\ AnalyzeIdle
    /\ UploadIdle
    /\ ZoteroIdle
    /\ ReportIdle
    /\ TokenIdle
    /\ DirIdle
    /\ FigureIdle
    /\ ParseIdle
    /\ BackoffIdle
    /\ TextIdle
    /\ PoolIdle

\* ------------------------------------------------------------- main_async
\* main.py 397-441: no identifiers -> return before any report; otherwise
\* the fetch_meta thread is started and the consuming loop entered.
MainStart ==
    /\ mainpc = "start"
    /\ mainpc' = IF arxiv_ids = {} THEN "done" ELSE "consume"
    /\ UNCHANGED detailVars
    /\ UNCHANGED <<arxiv_ids, skip_deep, meta_queue, async_tasks, results,
                   interested, ignored, reported>>
    /\ UNCHANGED metaVars
    /\ UNCHANGED paperVars

\* threading.Thread(target=fetch_meta).start() is reached only with a
\* non-empty identifier list (main.py 398-400, 441).
MetaThreadStarted == mainpc # "start" /\ arxiv_ids # {}

\* utils.get_arxiv_metadata_stream yields the record of the next identifier
\* and fetch_meta puts it on the queue.
FetchMetaYield ==
    /\ MetaThreadStarted
    /\ metaIdx \in arxiv_ids
    /\ meta_queue' = Append(meta_queue, metaIdx)
    /\ metaIdx' = metaIdx + 1
    /\ UNCHANGED detailVars
    /\ UNCHANGED <<arxiv_ids, skip_deep, metaEnded>>
    /\ UNCHANGED mainVars
    /\ UNCHANGED paperVars

\* The chunk of the identifier failed on every retry (or arXiv returned no
\* record for it): the generator moves on without yielding it.
FetchMetaLose ==
    /\ MetaThreadStarted
    /\ metaIdx \in arxiv_ids
    /\ metaIdx' = metaIdx + 1
    /\ UNCHANGED detailVars
    /\ UNCHANGED <<arxiv_ids, skip_deep, metaEnded, meta_queue>>
    /\ UNCHANGED mainVars
    /\ UNCHANGED paperVars

\* finally: the end marker (None, None) is put after the generator ended.
FetchMetaEnd ==
    /\ MetaThreadStarted
    /\ metaIdx \notin arxiv_ids
    /\ ~metaEnded
    /\ metaEnded' = TRUE
    /\ meta_queue' = Append(meta_queue, Sentinel)
    /\ UNCHANGED detailVars
    /\ UNCHANGED <<arxiv_ids, skip_deep, metaIdx>>
    /\ UNCHANGED mainVars
    /\ UNCHANGED paperVars

\* the queue is read only after the fetch_meta thread has put the end marker
MainGet_WaitAll ==
    /\ mainpc = "consume"
    /\ metaEnded
    /\ meta_queue # <<>>
    /\ LET aid == Head(meta_queue) IN
         /\ meta_queue' = Tail(meta_queue)
         /\ IF aid = Sentinel
              THEN /\ mainpc' = "gather"
                   /\ UNCHANGED <<async_tasks, pc>>
              ELSE /\ mainpc' = "consume"
                   /\ async_tasks' = Append(async_tasks, aid)
                   /\ pc' = [pc EXCEPT ![aid] = "filter_wait"]
    /\ UNCHANGED detailVars
    /\ UNCHANGED <<arxiv_ids, skip_deep, results, interested, ignored, reported>>
    /\ UNCHANGED metaVars
    /\ UNCHANGED <<sem, held, fut, attempt, analysis, download_success, ocr_attempt, ocr_result,
                   llm_attempt, deep_analysis_result, ret, started>>

\* while True: aid, meta = await meta_queue.get(); break on the end marker,
\* else asyncio.create_task(process_paper_async(...)).  The new task runs up
\* to its first suspension, the entry of `async with filter_sem`.
MainGet ==
    /\ mainpc = "consume"
    /\ meta_queue # <<>>
    /\ LET aid == Head(meta_queue) IN
         /\ meta_queue' = Tail(meta_queue)
         /\ IF aid = Sentinel
              THEN /\ mainpc' = "gather"
                   /\ UNCHANGED <<async_tasks, pc>>
              ELSE /\ mainpc' = "consume"
                   /\ async_tasks' = Append(async_tasks, aid)
                   /\ pc' = [pc EXCEPT ![aid] = "filter_wait"]
    /\ UNCHANGED detailVars
    /\ UNCHANGED <<arxiv_ids, skip_deep, results, interested, ignored, reported>>
    /\ UNCHANGED metaVars
    /\ UNCHANGED <<sem, held, fut, attempt, analysis, download_success, ocr_attempt, ocr_result,
                   llm_attempt, deep_analysis_result, ret, started>>

\* the guard `r and` against None results is missing
SelectStatus_NoneKept(rs, st) == SelectSeq(rs, LAMBDA r : r.status \in {st, "None"})

SelectStatus(rs, st) == SelectSeq(rs, LAMBDA r : r.status = st)

\* results = await asyncio.gather(*async_tasks) returns the tasks' values in
\* the order of async_tasks; lines 458-459 build the two buckets.
MainGather ==
    /\ mainpc = "gather"
    /\ \A i \in 1..Len(async_tasks) : pc[async_tasks[i]] = "done"
    /\ LET rs == [i \in 1..Len(async_tasks) |->
                    [id |-> async_tasks[i], status |-> ret[async_tasks[i]]]]
       IN /\ results' = rs
          /\ interested' = SelectStatus(rs, "interested")
          /\ ignored' = SelectStatus(rs, "ignored")
    /\ mainpc' = "report"
    /\ UNCHANGED detailVars
    /\ UNCHANGED <<arxiv_ids, skip_deep, meta_queue, async_tasks, reported>>
    /\ UNCHANGED metaVars
    /\ UNCHANGED paperVars

\* generate_daily_report(interested, ignored, target_date, local_dir)
GenerateDailyReport ==
    /\ mainpc = "report"
    /\ reported' = TRUE
    /\ mainpc' = "done"
    /\ UNCHANGED detailVars
    /\ UNCHANGED <<arxiv_ids, skip_deep, meta_queue, async_tasks, results,
                   interested, ignored>>
    /\ UNCHANGED metaVars
    /\ UNCHANGED paperVars


\* ---------------------------------------------------- process_paper_async
\* Submit(p, stage): loop.run_in_executor(None, <stage call>, ...) followed by
\* await: the call is handed to the executor and the task suspends.
Submit(p, stage, nextpc) ==
    /\ pc' = [pc EXCEPT ![p] = nextpc]
    /\ fut' = [fut EXCEPT ![p] = "pending"]
    /\ attempt' = [attempt EXCEPT ![p] = 0]
    /\ started' = [started EXCEPT ![p] = Append(@, stage)]

\* return <record> / return None: the task is finished.
Return(p, value) ==
    /\ pc' = [pc EXCEPT ![p] = "done"]
    /\ ret' = [ret EXCEPT ![p] = value]
    /\ fut' = [fut EXCEPT ![p] = "idle"]

\* one lock for all stages: a gate is entered only while no other task is
\* inside any gate
Enter_Exclusive(p, g, waitpc, callpc) ==
    /\ pc[p] = waitpc
    /\ CanAcquire(g)
    /\ \A q \in DOMAIN held : q # p => held[q] = {}
    /\ sem' = Acquired(g)
    /\ held' = [held EXCEPT ![p] = @ \cup {g}]
    /\ Submit(p, g, callpc)

\* async with sem: entry.  The gate is taken when a permit is free and the
\* stage call is submitted in the same step of the event loop.
Enter(p, g, waitpc, callpc) ==
    /\ pc[p] = waitpc
    /\ CanAcquire(g)
    /\ sem' = Acquired(g)
    /\ held' = [held EXCEPT ![p] = @ \cup {g}]
    /\ Submit(p, g, callpc)

\* async with sem: exit (also taken when the body raised).
Exit(p, g) ==
    /\ sem' = Released({g})
    /\ held' = [held EXCEPT ![p] = @ \ {g}]

\* --- 1. filter (main.py 27-44, llm_agent.analyze_paper_with_structure)
LLMOutcomes == {"fail", "interested", "not_interested", "nondict"}

\* the last pass is not recognised
FilterAttemptResult_OffByOne(i, out) ==
    IF out # "fail" THEN out
    ELSE IF i = llm_max_retries THEN "default"
    ELSE "pending"

\* One pass of the retry loop of analyze_paper_with_structure: i is the loop
\* index, out what the chat completion and json.loads did.  The value is the
\* state of the future: the parsed JSON, {"interested": False} after the last
\* failure, or still pending (sleep, next pass).
FilterAttemptResult(i, out) ==
    IF out # "fail" THEN out
    ELSE IF i = llm_max_retries - 1 THEN "default"
    ELSE "pending"

FilterEnter(p) ==
    /\ Enter(p, "filter", "filter_wait", "filter_call")
    /\ UNCHANGED detailVars
    /\ UNCHANGED <<arxiv_ids, skip_deep, meta_queue>>
    /\ UNCHANGED mainVars
    /\ UNCHANGED metaVars
    /\ UNCHANGED <<analysis, download_success, ocr_attempt, ocr_result, llm_attempt,
                   deep_analysis_result, ret>>

\* The executor thread makes one pass of the loop; when the call returns,
\* its frame (and loop index) is gone.
FilterAttempt(p) ==
    /\ pc[p] = "filter_call"
    /\ fut[p] = "pending"
    /\ attempt[p] < llm_max_retries
    /\ \E out \in LLMOutcomes :
         LET r == FilterAttemptResult(attempt[p], out) IN
         /\ fut' = [fut EXCEPT ![p] = r]
         /\ attempt' = [attempt EXCEPT ![p] = IF r = "pending" THEN @ + 1 ELSE 0]
    /\ UNCHANGED detailVars
    /\ UNCHANGED <<arxiv_ids, skip_deep, meta_queue>>
    /\ UNCHANGED mainVars
    /\ UNCHANGED metaVars
    /\ UNCHANGED <<sem, pc, held, analysis, download_success, ocr_attempt,
                   ocr_result, llm_attempt, deep_analysis_result, ret, started>>

\* tests the presence of the key instead of its value
IsInterested_KeyPresent(a) == a \in {"interested", "not_interested"}

\* analysis.get('interested'): true only for a JSON object saying so.
IsInterested(a) == a = "interested"

\* the early return of the ignored record is missing
AfterFilter_NoIgnore(a) == IF a = "nondict" THEN "raise" ELSE "download"

\* main.py 37-45 on the filter result a: a JSON value that is no object has
\* no .get and raises; `if not analysis.get('interested')` returns the
\* ignored record; otherwise the paper goes on to the download.
AfterFilter(a) ==
    IF a = "nondict" THEN "raise"
    ELSE IF ~IsInterested(a) THEN "ignored"
    ELSE "download"

\* The task resumes with the filter result: the gate is left, then lines
\* 37-58 run: ignored record, or the directories are prepared (os.makedirs,
\* meta['authors'][0] may raise) and the download gate is approached.
FilterResume(p) ==
    /\ pc[p] = "filter_call"
    /\ fut[p] \notin {"pending", "idle"}
    /\ Exit(p, "filter")
    /\ analysis' = [analysis EXCEPT ![p] = fut[p]]
    /\ CASE AfterFilter(fut[p]) = "raise" -> Return(p, "None")
         [] AfterFilter(fut[p]) = "ignored" -> Return(p, "ignored")
         [] AfterFilter(fut[p]) = "download" ->
              \E prepared \in BOOLEAN :
                  IF prepared
                    THEN /\ pc' = [pc EXCEPT ![p] = "download_wait"]
                         /\ fut' = [fut EXCEPT ![p] = "idle"]
                         /\ UNCHANGED ret
                    ELSE Return(p, "None")
    /\ UNCHANGED detailVars
    /\ UNCHANGED <<arxiv_ids, skip_deep, meta_queue>>
    /\ UNCHANGED mainVars
    /\ UNCHANGED metaVars
    /\ UNCHANGED <<attempt, download_success, ocr_attempt, ocr_result,
                   llm_attempt, deep_analysis_result, started>>

\* --- 3. download (main.py 60-73, utils.download_pdf)
DownloadOutcomes == {"ok", "http_error", "timeout", "exception", "undersized"}

\* One pass of the retry loop of download_pdf.
\* a timeout ends the call at once
DownloadAttemptResult_TimeoutFatal(i, out) ==
    IF out = "ok" THEN "True"
    ELSE IF out # "timeout" /\ i < dl_max_retries - 1 THEN "pending"
    ELSE "False"

DownloadAttemptResult(i, out) ==
    IF out = "ok" THEN "True"
    ELSE IF i < dl_max_retries - 1 THEN "pending"
    ELSE "False"

DownloadEnter(p) ==
    /\ Enter(p, "download", "download_wait", "download_call")
    /\ UNCHANGED detailVars
    /\ UNCHANGED <<arxiv_ids, skip_deep, meta_queue>>
    /\ UNCHANGED mainVars
    /\ UNCHANGED metaVars
    /\ UNCHANGED <<analysis, download_success, ocr_attempt, ocr_result, llm_attempt,
                   deep_analysis_result, ret>>

DownloadAttempt(p) ==
    /\ pc[p] = "download_call"
    /\ fut[p] = "pending"
    /\ attempt[p] < dl_max_retries
    /\ \E out \in DownloadOutcomes :
         LET r == DownloadAttemptResult(attempt[p], out) IN
         /\ fut' = [fut EXCEPT ![p] = r]
         /\ attempt' = [attempt EXCEPT ![p] = IF r = "pending" THEN @ + 1 ELSE 0]
    /\ UNCHANGED detailVars
    /\ UNCHANGED <<arxiv_ids, skip_deep, meta_queue>>
    /\ UNCHANGED mainVars
    /\ UNCHANGED metaVars
    /\ UNCHANGED <<sem, pc, held, analysis, download_success, ocr_attempt,
                   ocr_result, llm_attempt, deep_analysis_result, ret, started>>

\* --- 5. note and archive (main.py 133-169): no gate.  The note of the deep
\* analysis is read from its note_path; when there is none, or it cannot be
\* read or is empty, llm_agent.generate_reading_note is called first.
Compose(p, deep) ==
    \E note_read \in BOOLEAN :
        IF deep # "None" /\ note_read
          THEN Submit(p, "archive", "archive_call")
          ELSE Submit(p, "note", "note_call")

\* the result of the download is not looked at
AfterDownload_Unchecked(success, skip) == IF skip THEN "compose" ELSE "ocr"

\* main.py 65-77 on the download result: `if not download_success` returns
\* the failed record; with --skip-deep-analysis the note comes next,
\* otherwise the OCR loop.
AfterDownload(success, skip) ==
    IF success # "True" THEN "failed"
    ELSE IF skip THEN "compose"
    ELSE "ocr"

DownloadResume(p) ==
    /\ pc[p] = "download_call"
    /\ fut[p] \in {"True", "False"}
    /\ Exit(p, "download")
    /\ download_success' = [download_success EXCEPT ![p] = fut[p]]
    /\ CASE AfterDownload(fut[p], skip_deep) = "failed" ->
              /\ Return(p, "failed")
              /\ UNCHANGED <<attempt, started, ocr_attempt>>
         [] AfterDownload(fut[p], skip_deep) = "compose" ->
              /\ Compose(p, "None")
              /\ UNCHANGED <<ret, ocr_attempt>>
         [] AfterDownload(fut[p], skip_deep) = "ocr" ->
              /\ pc' = [pc EXCEPT ![p] = "ocr_wait"]
              /\ fut' = [fut EXCEPT ![p] = "idle"]
              /\ ocr_attempt' = [ocr_attempt EXCEPT ![p] = 0]
              /\ UNCHANGED <<ret, attempt, started>>
    /\ UNCHANGED detailVars
    /\ UNCHANGED <<arxiv_ids, skip_deep, meta_queue>>
    /\ UNCHANGED mainVars
    /\ UNCHANGED metaVars
    /\ UNCHANGED <<analysis, ocr_result, llm_attempt, deep_analysis_result>>

\* --- 4.1 OCR (main.py 85-109, paper_analyzer.extract_ocr_only)
\* extract_ocr_only returns None when no page image was produced, otherwise
\* the OCR data, whose page list may be empty; a page worker's exception
\* leaves through future.result().
OcrOutcomes == {"None", "empty", "pages", "raise"}

OcrEnter(p) ==
    /\ Enter(p, "ocr", "ocr_wait", "ocr_call")
    /\ UNCHANGED detailVars
    /\ UNCHANGED <<arxiv_ids, skip_deep, meta_queue>>
    /\ UNCHANGED mainVars
    /\ UNCHANGED metaVars
    /\ UNCHANGED <<analysis, download_success, ocr_attempt, ocr_result,
                   llm_attempt, deep_analysis_result, ret>>

\* one pass too many
RetrySleeps_OffByOne(i, limit) == i < limit

\* for i in range(limit): ... if i < limit - 1: await asyncio.sleep(...)
\* A failed pass is followed by a sleep and another pass, except the last.
RetrySleeps(i, limit) == i < limit - 1

\* The task resumes with what extract_ocr_only returned (or raised): the
\* gate is left, then lines 98-113 run on the value.
OcrResumeWith(p, out) ==
    /\ pc[p] = "ocr_call"
    /\ fut[p] = "pending"
    /\ Exit(p, "ocr")
    /\ IF out = "raise"
         THEN /\ Return(p, "None")
              /\ UNCHANGED <<ocr_result, llm_attempt, attempt, started>>
         ELSE IF out # "None"
           THEN /\ ocr_result' = [ocr_result EXCEPT ![p] = out]
                /\ pc' = [pc EXCEPT ![p] = "llm_wait"]
                /\ fut' = [fut EXCEPT ![p] = "idle"]
                /\ llm_attempt' = [llm_attempt EXCEPT ![p] = 0]
                /\ UNCHANGED <<ret, attempt, started>>
           ELSE IF RetrySleeps(ocr_attempt[p], max_ocr_retries)
             THEN /\ pc' = [pc EXCEPT ![p] = "ocr_sleep"]
                  /\ fut' = [fut EXCEPT ![p] = "idle"]
                  /\ UNCHANGED <<ret, ocr_result, llm_attempt, attempt, started>>
             ELSE /\ Compose(p, "None")
                  /\ UNCHANGED <<ret, ocr_result, llm_attempt>>
    /\ UNCHANGED <<arxiv_ids, skip_deep, meta_queue>>
    /\ UNCHANGED mainVars
    /\ UNCHANGED metaVars
    /\ UNCHANGED <<analysis, download_success, ocr_attempt, deep_analysis_result>>

\* the call seen from outside: any of its outcomes
OcrResume(p) ==
    /\ \E out \in OcrOutcomes : OcrResumeWith(p, out)
    /\ UNCHANGED detailVars

\* await asyncio.sleep(2 * (ocr_attempt + 1)) is over: next pass of the loop.
OcrWake(p) ==
    /\ pc[p] = "ocr_sleep"
    /\ ocr_attempt' = [ocr_attempt EXCEPT ![p] = @ + 1]
    /\ pc' = [pc EXCEPT ![p] = "ocr_wait"]
    /\ UNCHANGED detailVars
    /\ UNCHANGED <<arxiv_ids, skip_deep, meta_queue>>
    /\ UNCHANGED mainVars
    /\ UNCHANGED metaVars
    /\ UNCHANGED <<sem, held, fut, attempt, analysis, download_success,
                   ocr_result, llm_attempt, deep_analysis_result, ret, started>>

\* --- 4.2 LLM analysis (main.py 111-131, paper_analyzer.analyze_with_llm)
\* analyze_with_llm returns None for an empty page list; otherwise it
\* returns the analysis with its note_path, or raises while selecting
\* figures or writing the note.
AnalyzeOutcomes(ocr) == IF ocr = "empty" THEN {"None"} ELSE {"ok", "raise"}

LlmEnter(p) ==
    /\ Enter(p, "llm", "llm_wait", "llm_call")
    /\ UNCHANGED detailVars
    /\ UNCHANGED <<arxiv_ids, skip_deep, meta_queue>>
    /\ UNCHANGED mainVars
    /\ UNCHANGED metaVars
    /\ UNCHANGED <<analysis, download_success, ocr_attempt, ocr_result,
                   llm_attempt, deep_analysis_result, ret>>

\* The task resumes with what analyze_with_llm returned (or raised): the
\* gate is left, then lines 124-150 run on the value.
LlmResumeWith(p, out) ==
    /\ pc[p] = "llm_call"
    /\ fut[p] = "pending"
    /\ Exit(p, "llm")
    /\ IF out = "raise"
         THEN /\ Return(p, "None")
              /\ UNCHANGED <<deep_analysis_result, attempt, started>>
         ELSE IF out # "None"
           THEN /\ deep_analysis_result' = [deep_analysis_result EXCEPT ![p] = out]
                /\ Compose(p, out)
                /\ UNCHANGED ret
           ELSE IF RetrySleeps(llm_attempt[p], max_llm_retries)
             THEN /\ pc' = [pc EXCEPT ![p] = "llm_sleep"]
                  /\ fut' = [fut EXCEPT ![p] = "idle"]
                  /\ UNCHANGED <<ret, deep_analysis_result, attempt, started>>
             ELSE /\ Compose(p, "None")
                  /\ UNCHANGED <<ret, deep_analysis_result>>
    /\ UNCHANGED <<arxiv_ids, skip_deep, meta_queue>>
    /\ UNCHANGED mainVars
    /\ UNCHANGED metaVars
    /\ UNCHANGED <<analysis, download_success, ocr_attempt, ocr_result, llm_attempt>>

\* the call seen from outside: any of its outcomes
LlmResume(p) ==
    /\ \E out \in AnalyzeOutcomes(ocr_result[p]) : LlmResumeWith(p, out)
    /\ UNCHANGED detailVars

LlmWake(p) ==
    /\ pc[p] = "llm_sleep"
    /\ llm_attempt' = [llm_attempt EXCEPT ![p] = @ + 1]
    /\ pc' = [pc EXCEPT ![p] = "llm_wait"]
    /\ UNCHANGED detailVars
    /\ UNCHANGED <<arxiv_ids, skip_deep, meta_queue>>
    /\ UNCHANGED mainVars
    /\ UNCHANGED metaVars
    /\ UNCHANGED <<sem, held, fut, attempt, analysis, download_success,
                   ocr_attempt, ocr_result, deep_analysis_result, ret, started>>

\* the archive call is admitted through the filter gate
NoteResume_Gated(p) ==
    /\ pc[p] = "note_call"
    /\ fut[p] = "pending"
    /\ CanAcquire("filter")
    /\ Submit(p, "archive", "archive_call")
    /\ UNCHANGED detailVars
    /\ UNCHANGED <<arxiv_ids, skip_deep, meta_queue>>
    /\ UNCHANGED mainVars
    /\ UNCHANGED metaVars
    /\ UNCHANGED <<sem, held, analysis, download_success, ocr_attempt,
                   ocr_result, llm_attempt, deep_analysis_result, ret>>

\* --- 5. note and archive calls
\* llm_agent.generate_reading_note catches every exception and returns a
\* text; the task resumes with it and submits the archive call.
NoteResume(p) ==
    /\ pc[p] = "note_call"
    /\ fut[p] = "pending"
    /\ Submit(p, "archive", "archive_call")
    /\ UNCHANGED detailVars
    /\ UNCHANGED <<arxiv_ids, skip_deep, meta_queue>>
    /\ UNCHANGED mainVars
    /\ UNCHANGED metaVars
    /\ UNCHANGED <<sem, held, analysis, download_success, ocr_attempt,
                   ocr_result, llm_attempt, deep_analysis_result, ret>>

\* zotero_ops.upload_paper_linked returns the item key, or None after its
\* own retries; it never raises.
UploadOutcomes == {"key", "None"}

\* an upload that gave None makes the record "failed"
ArchiveRecord_Checked(out) == IF out = "None" THEN "failed" ELSE "interested"

\* main.py 152-169: the value of the upload is not looked at, the record
\* returned is "interested".
ArchiveRecord(out) == "interested"

\* The task resumes with the value of the upload.
ArchiveResumeWith(p, out) ==
    /\ pc[p] = "archive_call"
    /\ fut[p] = "pending"
    /\ out \in UploadOutcomes
    /\ Return(p, ArchiveRecord(out))
    /\ UNCHANGED <<arxiv_ids, skip_deep, meta_queue>>
    /\ UNCHANGED mainVars
    /\ UNCHANGED metaVars
    /\ UNCHANGED <<sem, held, attempt, analysis, download_success, ocr_attempt,
                   ocr_result, llm_attempt, deep_analysis_result, started>>

\* the call seen from outside: any of its outcomes
ArchiveResume(p) ==
    /\ \E out \in UploadOutcomes : ArchiveResumeWith(p, out)
    /\ UNCHANGED detailVars

\* ------------------------------------------------------------------- Next
PaperStep(p) ==
    \/ FilterEnter(p)
    \/ FilterAttempt(p)
    \/ FilterResume(p)
    \/ DownloadEnter(p)
    \/ DownloadAttempt(p)
    \/ DownloadResume(p)
    \/ OcrEnter(p)
    \/ OcrResume(p)
    \/ OcrWake(p)
    \/ LlmEnter(p)
    \/ LlmResume(p)
    \/ LlmWake(p)
    \/ NoteResume(p)
    \/ ArchiveResume(p)

Next ==
    \/ MainStart
    \/ FetchMetaYield
    \/ FetchMetaLose
    \/ FetchMetaEnd
    \/ MainGet
    \/ MainGather
    \/ GenerateDailyReport
    \/ \E p \in Papers : PaperStep(p)

Spec == Init /\ [][Next]_vars

TypeOK ==
    /\ mainpc \in {"start", "consume", "gather", "report", "done"}
    /\ \A g \in Gates : sem[g] \in 0..download_limit
    /\ \A p \in Papers : ret[p] \in {"running", "interested", "ignored", "failed", "None"}

\* ------------------------------------------------------ derived notions
Capacity(g) ==
    CASE g = "filter" -> filter_limit
      [] g = "download" -> download_limit
      [] g = "ocr" -> ocr_limit
      [] g = "llm" -> llm_limit

CallPc(g) ==
    CASE g = "filter" -> "filter_call"
      [] g = "download" -> "download_call"
      [] g = "ocr" -> "ocr_call"
      [] g = "llm" -> "llm_call"

\* papers whose task is inside the stage call of gate g
Executing(g) == {p \in Papers : pc[p] = CallPc(g)}

Count(seq, x) == Cardinality({i \in 1..Len(seq) : seq[i] = x})

Has(seq, x) == \E i \in 1..Len(seq) : seq[i] = x

StageRank(st) ==
    CASE st = "filter" -> 1
      [] st = "download" -> 2
      [] st = "ocr" -> 3
      [] st = "llm" -> 4
      [] st = "note" -> 5
      [] st = "archive" -> 6

PcRank(l) ==
    CASE l = "none" -> 0
      [] l \in {"filter_wait", "filter_call"} -> 1
      [] l \in {"download_wait", "download_call"} -> 2
      [] l \in {"ocr_wait", "ocr_call", "ocr_sleep"} -> 3
      [] l \in {"llm_wait", "llm_call", "llm_sleep"} -> 4
      [] l \in {"note_call", "archive_call"} -> 5
      [] l = "done" -> 6

AllTasksFinished == \A p \in Papers : pc[p] \in {"none", "done"}

\* ----------------------------------------------------------------- claims

\* C1: in every reachable state the number of paper tasks executing the
\* filter / download / OCR / analyze stage call is at most the capacity of
\* that stage's gate, and the semaphore value accounts for exactly them.
C1_GateCapacity ==
    \A g \in Gates :
        /\ Cardinality(Executing(g)) <= Capacity(g)
        /\ sem[g] = Capacity(g) - Cardinality(Executing(g))

\* a gate is full with one paper in the stage call while another paper waits
C1_Witness ==
    \E p, q \in Papers :
        /\ p # q
        /\ pc[p] = "ocr_call"
        /\ pc[q] = "ocr_wait"
        /\ sem["ocr"] = 0

\* C2: a paper task holds at most one gate, holds it only while that stage's
\* offloaded call is awaited, holds none while it waits, sleeps between
\* retries, composes/archives or has returned (also after a raise); once all
\* tasks have finished every gate has all of its permits back.
C2_GateHolding ==
    /\ \A p \in Papers :
          /\ Cardinality(held[p]) <= 1
          /\ \A g \in Gates : g \in held[p] <=> pc[p] = CallPc(g)
          /\ pc[p] \in {"ocr_sleep", "llm_sleep", "note_call", "archive_call", "done"}
               => held[p] = {}
    /\ AllTasksFinished => \A g \in Gates : sem[g] = Capacity(g)

\* all tasks are over, one of them by an exception raised inside the OCR
\* call and one after sleeping between two analyze attempts
C2_Witness ==
    /\ AllTasksFinished
    /\ \E p, q \in Papers :
          /\ p # q
          /\ ret[p] = "None" /\ started[p] = <<"filter", "download", "ocr">>
          /\ ret[q] = "interested" /\ Count(started[q], "llm") = 2
    /\ \A g \in Gates : sem[g] = Capacity(g)

\* C3: within one paper the stage calls are submitted in the order filter,
\* download, OCR, analyze, note/archive, one at a time, and each only with
\* the result of the preceding stage call of that paper in hand.
C3_StageOrder ==
    \A p \in Papers :
        LET s == started[p] IN
        /\ \A i, j \in 1..Len(s) : i < j => StageRank(s[i]) <= StageRank(s[j])
        /\ s # <<>> => s[1] = "filter"
        /\ fut[p] = "pending" => s # <<>> /\ pc[p] \notin {"none", "done"}
        /\ Has(s, "download") => analysis[p] = "interested"
        /\ Has(s, "ocr") => download_success[p] = "True" /\ ~skip_deep
        /\ Has(s, "llm") => ocr_result[p] \in {"empty", "pages"}
        /\ Has(s, "note") \/ Has(s, "archive") => download_success[p] = "True"
        /\ Has(s, "archive") /\ ~Has(s, "note") => deep_analysis_result[p] = "ok"
        /\ deep_analysis_result[p] = "ok" => Has(s, "llm")

\* one paper went through all six calls while the other was in between
C3_Witness ==
    \E p, q \in Papers :
        /\ p # q
        /\ started[p] = <<"filter", "download", "ocr", "llm", "note", "archive">>
        /\ pc[p] = "done"
        /\ pc[q] = "ocr_call"

\* C4: a paper's progress is monotonic along pending, filter, download, OCR,
\* analyze, archive, terminal; the only repetition is the bounded retry
\* inside the OCR stage and inside the analyze stage (at most 2 calls each),
\* every other stage call is made at most once.
C4_Monotonic ==
    [][\A p \in Papers :
          /\ PcRank(pc'[p]) >= PcRank(pc[p])
          /\ Count(started'[p], "ocr") <= max_ocr_retries
          /\ Count(started'[p], "llm") <= max_llm_retries
          /\ \A st \in {"filter", "download", "note", "archive"} :
                Count(started'[p], st) <= 1]_vars

\* both retry budgets used up by one paper
C4_Witness ==
    \E p \in Papers :
        /\ Count(started[p], "ocr") = max_ocr_retries
        /\ Count(started[p], "llm") = max_llm_retries
        /\ pc[p] = "done"

\* C5: for a paper whose terminal record is ignored (filter result not
\* interested) no download, OCR, analyze, note or archive call is ever made.
C5_IgnoredStops ==
    \A p \in Papers :
        (ret[p] = "ignored" \/ analysis[p] \in {"not_interested", "default"})
            => /\ started[p] = <<"filter">>
               /\ ret[p] = "ignored"
               /\ download_success[p] = "unset"

\* one paper ignored on the filter's answer while another one was archived
C5_Witness ==
    \E p, q \in Papers :
        /\ ret[p] = "ignored" /\ analysis[p] = "not_interested"
        /\ ret[q] = "interested" /\ Has(started[q], "archive")

\* C6: if the download of an interested paper fails on all retries, the
\* terminal record is failed (never interested or ignored) and no OCR,
\* analyze, note or archive call is made for the paper.
C6_DownloadFailed ==
    \A p \in Papers :
        /\ download_success[p] = "False"
             => /\ ret[p] = "failed"
                /\ analysis[p] = "interested"
                /\ started[p] = <<"filter", "download">>
        /\ ret[p] = "failed" => download_success[p] = "False"

\* a failed paper next to one that went on to OCR
C6_Witness ==
    \E p, q \in Papers :
        /\ ret[p] = "failed"
        /\ Has(started[q], "ocr")

\* identifiers of the records in a bucket
Ids(bucket) == {bucket[i].id : i \in 1..Len(bucket)}

\* what main_async hands to generate_daily_report (main.py 461)
HandedToReport == Ids(interested) \cup Ids(ignored)

\* C7: when all paper tasks have finished the orchestrator's output is three
\* pairwise-disjoint collections, and every paper whose terminal record has
\* status failed is in a collection handed to the report stage.
C7_FailedReported ==
    mainpc \in {"report", "done"} /\ arxiv_ids # {}
       => /\ Ids(interested) \cap Ids(ignored) = {}
          /\ \A p \in Papers : ret[p] = "failed" => p \in HandedToReport

\* C8: for every discovered identifier exactly one terminal record
\* (interested, ignored or failed) has been collected when the run reaches
\* report generation.
C8_OneRecordPerId ==
    mainpc \in {"report", "done"} /\ arxiv_ids # {}
       => \A id \in arxiv_ids :
             Cardinality({i \in 1..Len(results) :
                             /\ results[i].id = id
                             /\ results[i].status \in {"interested", "ignored", "failed"}}) = 1

\* C9: an exception raised inside any stage of one paper never crashes the
\* run and never blocks other papers: the task returns None with no gate
\* held, its paper is in no bucket, the run is never stuck after a task
\* returned None (some step can be taken until the report has been
\* generated), every task that was started has its terminal value when the
\* report stage is reached, and the run ends with the report generated.
C9_ExceptionIsolated ==
    /\ \A p \in Papers :
          ret[p] = "None"
             => /\ pc[p] = "done"
                /\ held[p] = {}
                /\ p \notin HandedToReport
    /\ (\E p \in Papers : ret[p] = "None")
          => (mainpc = "done" /\ reported) \/ ENABLED Next
    /\ mainpc \in {"report", "done"} /\ arxiv_ids # {}
          => /\ Len(results) = Len(async_tasks)
             /\ \A i \in 1..Len(async_tasks) :
                   /\ pc[async_tasks[i]] = "done"
                   /\ ret[async_tasks[i]] # "running"
                   /\ results[i].status = ret[async_tasks[i]]
    /\ mainpc = "done" /\ arxiv_ids # {} => reported

\* the run has reported although one paper raised in its analyze call, and
\* the other paper was archived
C9_Witness ==
    /\ mainpc = "done" /\ reported
    /\ \E p, q \in Papers :
          /\ ret[p] = "None" /\ started[p] = <<"filter", "download", "ocr", "llm">>
          /\ ret[q] = "interested"
          /\ Ids(interested) = {q}

\* C10: if the relevance-filter LLM call fails on every attempt, the filter
\* makes exactly llm_max_retries attempts and then yields
\* {"interested": False} without raising, and the paper ends with an ignored
\* record; once an attempt has succeeded no further attempt is made and that
\* attempt's result is what the orchestrator receives.
C10_FilterRetries ==
    [][\A p \in Papers :
          pc[p] = "filter_call"
             => /\ attempt[p] < llm_max_retries
                /\ fut[p] = "pending" /\ fut'[p] = "default"
                     => attempt[p] = llm_max_retries - 1
                /\ fut[p] = "pending" /\ fut'[p] = "pending"
                     => attempt'[p] \in {attempt[p], attempt[p] + 1}
                /\ fut[p] # "pending"
                     => /\ fut[p] \in {"default", "interested", "not_interested", "nondict"}
                        /\ pc'[p] = "filter_call"
                             => fut'[p] = fut[p] /\ attempt'[p] = attempt[p]
                        /\ pc'[p] # "filter_call"
                             => /\ analysis'[p] = fut[p]
                                /\ fut[p] = "default" => ret'[p] = "ignored"]_vars

\* a paper ignored after the filter call failed llm_max_retries times, while
\* the filter call of another paper has returned a parsed reply
C10_Witness ==
    \E p, q \in Papers :
        /\ ret[p] = "ignored" /\ analysis[p] = "default"
        /\ pc[q] = "filter_call" /\ fut[q] = "interested"

\* ===================================================== utils.download_pdf
\* One target path and the calls of download_pdf made on it one after the
\* other, each looked at attempt by attempt.
NoFile == [exists |-> FALSE, size |-> 0]

File(n) == [exists |-> TRUE, size |-> n]

\* sizes on both sides of the threshold
FileSizes == {0, MinPdfBytes, MinPdfBytes + 1}

\* os.path.exists(save_path) and os.path.getsize(save_path) > 10240
SizeNormal(f) == f.exists /\ f.size > MinPdfBytes

\* the file on disk is never trusted
SkipDownload_Never(f) == FALSE

\* utils.py 13-15: a file that is already there and large enough is kept
SkipDownload(f) == SizeNormal(f)

\* What one pass of the loop meets: a non-200 status, a Timeout or another
\* exception, or a body streamed to its end.  An exception may come before
\* the file is opened or while the chunks are written, which leaves the
\* bytes written so far.
NetAttempts ==
    [net : {"http_error", "timeout"}, wrote : {FALSE}, size : {0}]
      \cup [net : {"exception"}, wrote : {FALSE}, size : {0}]
      \cup [net : {"exception", "complete"}, wrote : {TRUE}, size : FileSizes]

\* open(save_path, 'wb') and the chunk loop replace the file
FileAfter(f, a) == IF a.wrote THEN File(a.size) ELSE f

\* the branch of lines 24-59 the pass ends in
Classify(a, f) ==
    IF a.net = "complete"
      THEN IF SizeNormal(f) THEN "ok" ELSE "undersized"
      ELSE a.net

\* utils.py 11-20: the call, up to the first pass of the loop
DownloadPdfCall ==
    /\ dl_pc = "idle"
    /\ Len(dl_returns) < MaxFetchCalls
    /\ dl_requests' = Append(dl_requests, 0)
    /\ dl_attempt' = 0
    /\ dl_log' = <<>>
    /\ IF SkipDownload(save_path)
         THEN /\ dl_returns' = Append(dl_returns, "True")
              /\ dl_pc' = "idle"
         ELSE /\ dl_pc' = "loop"
              /\ UNCHANGED dl_returns
    /\ UNCHANGED save_path
    /\ UNCHANGED pipelineVars
    /\ UNCHANGED fetchRest

\* utils.py 20-59: one pass of `for attempt in range(max_retries)`
DownloadPdfAttempt ==
    /\ dl_pc = "loop"
    /\ dl_attempt < dl_max_retries
    /\ \E a \in NetAttempts :
         LET f == FileAfter(save_path, a)
             r == DownloadAttemptResult(dl_attempt, Classify(a, f)) IN
         /\ save_path' = f
         /\ dl_log' = Append(dl_log, Classify(a, f))
         /\ dl_requests' = [dl_requests EXCEPT ![Len(dl_requests)] = @ + 1]
         /\ IF r = "pending"
              THEN /\ dl_attempt' = dl_attempt + 1
                   /\ UNCHANGED <<dl_pc, dl_returns>>
              ELSE /\ dl_attempt' = 0
                   /\ dl_pc' = "idle"
                   /\ dl_returns' = Append(dl_returns, r)
    /\ UNCHANGED pipelineVars
    /\ UNCHANGED fetchRest

FetchInit ==
    /\ arxiv_ids = {}
    /\ skip_deep = FALSE
    /\ PipelineStart
    /\ save_path \in {NoFile} \cup {File(n) : n \in FileSizes}
    /\ dl_pc = "idle"
    /\ dl_attempt = 0
    /\ dl_requests = <<>>
    /\ dl_returns = <<>>
    /\ dl_log = <<>>
    /\ OcrIdle
    /\ AnalyzeIdle
    /\ UploadIdle
    /\ ZoteroIdle
    /\ ReportIdle
    /\ TokenIdle
    /\ DirIdle
    /\ FigureIdle
    /\ ParseIdle
    /\ BackoffIdle
    /\ TextIdle
    /\ PoolIdle

FetchNext ==
    \/ DownloadPdfCall
    \/ DownloadPdfAttempt

FetchSpec == FetchInit /\ [][FetchNext]_vars

\* ========================================= paper_analyzer.extract_ocr_only
\* The page pool of one extract_ocr_only call: pdf_to_images, one
\* process_single_page future per image on a ThreadPoolExecutor of
\* ocr_workers threads, the as_completed loop and the final sort.
Running == {i \in Pages : page_state[i] = "running"}

Finished(i) == page_state[i] \in {"ok", "dropped", "raised"}

\* What one pass of call_deepseek_ocr and the rest of process_single_page
\* meet: the request fails, the text is empty, the text does not parse, the
\* page is written out, or an exception leaves the worker (the open() calls
\* outside any try).
PageOutcomes == {"fail", "empty", "unparsable", "text", "raise"}

\* a page the OCR gave up on takes the whole call down
PageResult_DropRaises(i, out) ==
    CASE out = "fail" -> IF i < ocr_max_retries - 1 THEN "retry" ELSE "raised"
      [] out \in {"empty", "unparsable"} -> "raised"
      [] out = "text" -> "ok"
      [] out = "raise" -> "raised"

\* paper_analyzer.py 131-161 and 169-207: a failed request is repeated
\* until max_retries passes are used up, then (None, {}) makes the page
\* None; so do an empty text and a text that does not parse.
PageResult(i, out) ==
    CASE out = "fail" -> IF i < ocr_max_retries - 1 THEN "retry" ELSE "dropped"
      [] out \in {"empty", "unparsable"} -> "dropped"
      [] out = "text" -> "ok"
      [] out = "raise" -> "raised"

Insert(x, sorted) ==
    LET before == SelectSeq(sorted, LAMBDA y : y < x)
        after == SelectSeq(sorted, LAMBDA y : y >= x)
    IN before \o <<x>> \o after

\* the results stay in the order the pages completed
SortByPage_CompletionOrder(seq) == seq

\* ocr_results.sort(key=lambda x: x['page'])
RECURSIVE SortByPage(_)
SortByPage(seq) ==
    IF seq = <<>> THEN <<>>
    ELSE Insert(Head(seq), SortByPage(Tail(seq)))

\* extract_ocr_only up to the submission of the page tasks: no image means
\* None is returned at once.
PdfToImages(p) ==
    /\ pc[p] = "ocr_call"
    /\ fut[p] = "pending"
    /\ ex_pc = "idle"
    /\ \E n \in 0..MaxPages :
         IF n = 0
           THEN /\ OcrResumeWith(p, "None")
                /\ UNCHANGED ocrVars
           ELSE /\ ex_pc' = "pool"
                /\ image_paths' = n
                /\ page_state' = [i \in Pages |-> IF i <= n THEN "queued" ELSE "none"]
                /\ page_attempt' = [i \in Pages |-> 0]
                /\ page_out' = [i \in Pages |-> "none"]
                /\ completed' = <<>>
                /\ ocr_results' = <<>>
                /\ UNCHANGED pipelineVars
    /\ UNCHANGED ocrRest

\* a free thread of the pool takes the oldest queued page
PageStart(i) ==
    /\ ex_pc = "pool"
    /\ page_state[i] = "queued"
    /\ Cardinality(Running) < ocr_workers
    /\ \A j \in Pages : j < i => page_state[j] # "queued"
    /\ page_state' = [page_state EXCEPT ![i] = "running"]
    /\ UNCHANGED <<ex_pc, image_paths, page_attempt, page_out, completed,
                   ocr_results>>
    /\ UNCHANGED pipelineVars
    /\ UNCHANGED ocrRest

\* one pass of the loop in call_deepseek_ocr for page i; when the page is
\* settled, as_completed yields its future and a result dict is appended.
OcrPageAttempt(i) ==
    /\ ex_pc = "pool"
    /\ page_state[i] = "running"
    /\ page_attempt[i] < ocr_max_retries
    /\ \E out \in PageOutcomes :
         LET r == PageResult(page_attempt[i], out) IN
         IF r = "retry"
           THEN /\ page_attempt' = [page_attempt EXCEPT ![i] = @ + 1]
                /\ UNCHANGED <<page_state, page_out, completed, ocr_results>>
           ELSE /\ page_state' = [page_state EXCEPT ![i] = r]
                /\ page_out' = [page_out EXCEPT ![i] = out]
                /\ page_attempt' = [page_attempt EXCEPT ![i] = 0]
                /\ completed' = Append(completed, i)
                /\ ocr_results' = IF r = "ok" THEN Append(ocr_results, i)
                                  ELSE ocr_results
    /\ UNCHANGED <<ex_pc, image_paths>>
    /\ UNCHANGED pipelineVars
    /\ UNCHANGED ocrRest

AllFinished == \A i \in Pages : i <= image_paths => Finished(i)

\* paper_analyzer.py 838-869: every future is done, none raised; the list
\* is sorted, put into ocr_data and returned, and the task resumes.
ExtractReturn(p) ==
    /\ ex_pc = "pool"
    /\ AllFinished
    /\ \A i \in Pages : page_state[i] # "raised"
    /\ ex_pc' = "idle"
    /\ ocr_results' = SortByPage(ocr_results)
    /\ OcrResumeWith(p, IF ocr_results = <<>> THEN "empty" ELSE "pages")
    /\ UNCHANGED <<image_paths, page_state, page_attempt, page_out, completed>>
    /\ UNCHANGED ocrRest

\* future.result() re-raises a worker's exception, or writing
\* ocr_cache.json fails: the exception leaves extract_ocr_only.
ExtractRaise(p) ==
    /\ ex_pc = "pool"
    /\ AllFinished
    /\ ex_pc' = "raised"
    /\ OcrResumeWith(p, "raise")
    /\ UNCHANGED <<image_paths, page_state, page_attempt, page_out, completed,
                   ocr_results>>
    /\ UNCHANGED ocrRest

\* ========================================= paper_analyzer.analyze_with_llm
ContentOutcomes == {"json", "fail"}

\* the last failure is raised instead of answered with {}
ContentResult_Raises(i, out) ==
    IF out = "json" THEN "parsed"
    ELSE IF i < content_max_retries - 1 THEN "retry"
    ELSE "raise"

\* paper_analyzer.py 417-446: the parsed answer is returned; a failed pass
\* (request or json.loads) is followed by another, the last by `return {}, {}`.
ContentResult(i, out) ==
    IF out = "json" THEN "parsed"
    ELSE IF i < content_max_retries - 1 THEN "retry"
    ELSE "empty"

\* the empty page list is analysed like any other
NothingToAnalyze_Never(pages) == FALSE

\* paper_analyzer.py 902-904: `if not ocr_results: return None`
NothingToAnalyze(pages) == pages = <<>>

\* analyze_with_llm up to the call of analyze_paper_content
AnalyzeBegin(p) ==
    /\ pc[p] = "llm_call"
    /\ fut[p] = "pending"
    /\ an_pc = "idle"
    /\ IF NothingToAnalyze(ocr_results)
         THEN /\ LlmResumeWith(p, "None")
              /\ UNCHANGED anVars
         ELSE /\ an_pc' = "content"
              /\ an_attempt' = 0
              /\ UNCHANGED <<llm_requests, an_analysis, note_md>>
              /\ UNCHANGED pipelineVars
    /\ UNCHANGED anRest

\* one pass of the loop in analyze_paper_content
ContentAttempt ==
    /\ an_pc = "content"
    /\ an_attempt < content_max_retries
    /\ llm_requests' = llm_requests + 1
    /\ \E out \in ContentOutcomes :
         LET r == ContentResult(an_attempt, out) IN
         CASE r = "retry" ->
                /\ an_attempt' = an_attempt + 1
                /\ UNCHANGED <<an_pc, an_analysis>>
           [] r = "raise" ->
                /\ an_pc' = "raising"
                /\ an_attempt' = 0
                /\ UNCHANGED an_analysis
           [] OTHER ->
                /\ an_pc' = "note"
                /\ an_attempt' = 0
                /\ an_analysis' = r
    /\ UNCHANGED note_md
    /\ UNCHANGED pipelineVars
    /\ UNCHANGED anRest

\* an empty analysis makes analyze_with_llm return None
AnalyzeReturn_NoneOnEmpty(p) ==
    /\ an_pc = "note"
    /\ an_pc' = "idle"
    /\ note_md' = IF an_analysis = "empty" THEN "absent" ELSE "full"
    /\ LlmResumeWith(p, IF an_analysis = "empty" THEN "None" ELSE "ok")
    /\ UNCHANGED <<an_attempt, llm_requests, an_analysis>>
    /\ UNCHANGED anRest

\* paper_analyzer.py 910-951: figures are selected, note.md is written from
\* the analysis (every missing field as a placeholder), analysis.json is
\* saved and the result with its note_path returned; the task resumes.
AnalyzeReturn(p) ==
    /\ an_pc = "note"
    /\ an_pc' = "idle"
    /\ note_md' = IF an_analysis = "empty" THEN "placeholder" ELSE "full"
    /\ LlmResumeWith(p, "ok")
    /\ UNCHANGED <<an_attempt, llm_requests, an_analysis>>
    /\ UNCHANGED anRest

\* an exception leaves analyze_with_llm: while the prompt text is put
\* together, or while the note or analysis.json is written.
AnalyzeRaise(p) ==
    /\ \/ an_pc = "content" /\ an_attempt = 0
       \/ an_pc \in {"note", "raising"}
    /\ an_pc' = "raised"
    /\ LlmResumeWith(p, "raise")
    /\ UNCHANGED <<an_attempt, llm_requests, an_analysis, note_md>>
    /\ UNCHANGED anRest

\* ========================================= zotero_ops.upload_paper_linked
\* How one pass ends: _upload_logic returns the parent key, or None when
\* create_items reports no success, or raises an exception whose message
\* holds one of handshake/timeout/connection ("transient"), "400", both,
\* or neither.  The exception of a request that never reached the server
\* leaves the library as it was; a timeout or a broken connection while
\* the answer of create_items([template]) was on its way is raised after
\* the server has stored the item ("timeout_stored").
UploadAttemptOutcomes ==
    {"key", "None", "transient", "transient400", "timeout_stored", "400", "other"}

\* "400" is looked for first
UploadAttemptResult_ClientFirst(i, out) ==
    CASE out \in {"key", "None"} -> out
      [] out = "transient" -> IF i < upload_retries - 1 THEN "retry" ELSE "None"
      [] OTHER -> "None"

\* zotero_ops.py 76-91
UploadAttemptResult(i, out) ==
    CASE out \in {"key", "None"} -> out
      [] out \in {"transient", "transient400", "timeout_stored"} ->
           IF i < upload_retries - 1 THEN "retry" ELSE "None"
      [] OTHER -> "None"

\* one pass of `for i in range(retries)`; the last one returns to the task
UploadAttempt(p) ==
    /\ pc[p] = "archive_call"
    /\ fut[p] = "pending"
    /\ up_i < upload_retries
    /\ \E out \in UploadAttemptOutcomes :
         LET r == UploadAttemptResult(up_i, out) IN
         /\ up_log' = Append(up_log, out)
         /\ IF r = "retry"
              THEN /\ up_i' = up_i + 1
                   /\ UNCHANGED pipelineVars
              ELSE /\ up_i' = 0
                   /\ ArchiveResumeWith(p, r)
    /\ UNCHANGED upRest

\* ============================================ one paper, calls looked into
PaperInit ==
    /\ arxiv_ids = {1}
    /\ skip_deep \in BOOLEAN
    /\ PipelineStart
    /\ FetchIdle
    /\ OcrIdle
    /\ AnalyzeIdle
    /\ UploadIdle
    /\ ZoteroIdle
    /\ ReportIdle
    /\ TokenIdle
    /\ DirIdle
    /\ FigureIdle
    /\ ParseIdle
    /\ BackoffIdle
    /\ TextIdle
    /\ PoolIdle

PaperDetailStep(p) ==
    \/ FilterEnter(p)
    \/ FilterAttempt(p)
    \/ FilterResume(p)
    \/ DownloadEnter(p)
    \/ DownloadAttempt(p)
    \/ DownloadResume(p)
    \/ OcrEnter(p)
    \/ PdfToImages(p)
    \/ ExtractReturn(p)
    \/ ExtractRaise(p)
    \/ OcrWake(p)
    \/ LlmEnter(p)
    \/ AnalyzeBegin(p)
    \/ AnalyzeReturn(p)
    \/ AnalyzeRaise(p)
    \/ LlmWake(p)
    \/ NoteResume(p)
    \/ UploadAttempt(p)

PaperNext ==
    \/ MainStart
    \/ FetchMetaYield
    \/ FetchMetaLose
    \/ FetchMetaEnd
    \/ MainGet
    \/ MainGather
    \/ GenerateDailyReport
    \/ \E i \in Pages : PageStart(i)
    \/ \E i \in Pages : OcrPageAttempt(i)
    \/ ContentAttempt
    \/ \E p \in Papers : PaperDetailStep(p)

PaperSpec == PaperInit /\ [][PaperNext]_vars

\* =================================== zotero_ops.get_or_create_collection_id
\* The collection cache of zotero_ops under the calls the upload threads
\* make, one thread per paper; a call is two steps, the cache lookup and
\* the create_collections request, and other threads run in between.
RemoteNames == {remote[k].name : k \in 1..Len(remote)}

\* the key zot.collections() gives for a name (the last one listed)
KeyOf(n) ==
    LET ks == {k \in 1..Len(remote) : remote[k].name = n}
    IN remote[CHOOSE k \in ks : \A j \in ks : j <= k].key

\* zotero_ops.py 18-45 (main.py 395, before any task): the names of the
\* library are listed and the cache is filled; an exception of
\* zot.collections() leaves both empty.
GetExistingStructure ==
    /\ ~scanned
    /\ scanned' = TRUE
    /\ \E listed \in BOOLEAN :
         IF listed
           THEN /\ structure' = RemoteNames
                /\ collection_cache' = [n \in RemoteNames |-> KeyOf(n)]
           ELSE UNCHANGED <<structure, collection_cache>>
    /\ UNCHANGED <<remote, coll, creates>>
    /\ UNCHANGED pipelineVars
    /\ UNCHANGED zotRest

\* `if category_name in collection_cache`
CacheHit(n) == n \in DOMAIN collection_cache

\* the cache is looked at again just before the request
AfterMiss_Recheck(n) == IF CacheHit(n) THEN "cached" ELSE "create"

\* zotero_ops.py 52-61: after the miss the request is sent, whatever has
\* happened to the cache since (no lock, no second look)
AfterMiss(n) == "create"

\* the new key is not remembered
CacheAfterCreate_NotStored(n, key) == collection_cache

\* collection_cache[category_name] = new_key
CacheAfterCreate(n, key) ==
    [m \in DOMAIN collection_cache \cup {n} |->
        IF m = n THEN key ELSE collection_cache[m]]

RECURSIVE CallsOf(_)
CallsOf(ps) ==
    IF ps = {} THEN 0
    ELSE LET p == CHOOSE q \in ps : TRUE
         IN coll[p].calls + CallsOf(ps \ {p})

\* zotero_ops.py 47-50: the lookup
GetOrCreateCall(p, n) ==
    /\ scanned
    /\ coll[p].pc = "idle"
    /\ CallsOf(Papers) < MaxCollCalls
    /\ coll' = [coll EXCEPT ![p] =
                  IF CacheHit(n)
                    THEN [pc |-> "idle", name |-> n, ret |-> collection_cache[n],
                          calls |-> @.calls + 1]
                    ELSE [pc |-> "create", name |-> n, ret |-> @.ret,
                          calls |-> @.calls + 1]]
    /\ UNCHANGED <<scanned, structure, collection_cache, remote, creates>>
    /\ UNCHANGED pipelineVars
    /\ UNCHANGED zotRest

\* create_collections answers with a new key, with no success, or raises
CreateOutcomes == {"success", "no_success", "exception"}

\* zotero_ops.py 52-71: the request and what is returned
CreateCollection(p) ==
    /\ coll[p].pc = "create"
    /\ LET n == coll[p].name
           key == Len(remote) + 1 IN
       IF AfterMiss(n) = "create"
         THEN /\ creates' = [creates EXCEPT ![n] = @ + 1]
              /\ \E out \in CreateOutcomes :
                   IF out = "success"
                     THEN /\ remote' = Append(remote, [name |-> n, key |-> key])
                          /\ collection_cache' = CacheAfterCreate(n, key)
                          /\ coll' = [coll EXCEPT ![p].pc = "idle", ![p].ret = key]
                     ELSE /\ coll' = [coll EXCEPT ![p].pc = "idle", ![p].ret = root_id]
                          /\ UNCHANGED <<remote, collection_cache>>
         ELSE /\ coll' = [coll EXCEPT ![p].pc = "idle",
                                      ![p].ret = collection_cache[n]]
              /\ UNCHANGED <<remote, collection_cache, creates>>
    /\ UNCHANGED <<scanned, structure>>
    /\ UNCHANGED pipelineVars
    /\ UNCHANGED zotRest

\* the library holds the first k names when the run starts
ZoteroInit ==
    /\ arxiv_ids = {}
    /\ skip_deep = FALSE
    /\ PipelineStart
    /\ FetchIdle
    /\ OcrIdle
    /\ AnalyzeIdle
    /\ UploadIdle
    /\ scanned = FALSE
    /\ structure = {}
    /\ collection_cache = [n \in {} |-> 0]
    /\ \E k \in 0..NumCategories :
         remote = [i \in 1..k |-> [name |-> i, key |-> i]]
    /\ coll = [p \in Papers |-> [pc |-> "idle", name |-> 0, ret |-> 0, calls |-> 0]]
    /\ creates = [n \in Names |-> 0]
    /\ ReportIdle
    /\ TokenIdle
    /\ DirIdle
    /\ FigureIdle
    /\ ParseIdle
    /\ BackoffIdle
    /\ TextIdle
    /\ PoolIdle

ZoteroNext ==
    \/ GetExistingStructure
    \/ \E p \in Papers : \E n \in Names : GetOrCreateCall(p, n)
    \/ \E p \in Papers : CreateCollection(p)

ZoteroSpec == ZoteroInit /\ [][ZoteroNext]_vars

\* position of the latest call in dl_requests and dl_returns
LastCall == Len(dl_requests)

\* C11: a call of download_pdf made while the target path holds a file
\* larger than 10240 bytes makes no request, leaves the file as it is and
\* returns True; so of two calls in a row the later one never makes more
\* requests than the one before it.
C11_FetchIdempotent ==
    [][ /\ (dl_pc = "idle" /\ Len(dl_requests') = Len(dl_requests) + 1
              /\ save_path.exists /\ save_path.size > MinPdfBytes)
           => /\ save_path' = save_path
              /\ dl_requests' = Append(dl_requests, 0)
              /\ dl_returns' = Append(dl_returns, "True")
              /\ dl_pc' = "idle"
        /\ \A k \in 1..Len(dl_returns) : dl_requests'[k] = dl_requests[k]
        /\ \A k \in 2..Len(dl_requests') : dl_requests'[k] <= dl_requests'[k - 1]
      ]_vars

\* the first call fetched the file over the network, the second found it
C11_Witness ==
    /\ Len(dl_returns) = 2
    /\ dl_returns = <<"True", "True">>
    /\ dl_requests[1] > 0
    /\ dl_requests[2] = 0

\* C12: download_pdf returns False only when max_retries passes have been
\* made and every one of them failed; a failed pass that is not the last is
\* followed by another pass whatever the failure was (status, timeout,
\* exception, undersized file); it returns True at the first pass whose body
\* arrived whole and is larger than 10240 bytes; no call makes more than
\* max_retries requests.
C12_FetchRetries ==
    [][ /\ dl_requests'[LastCall'] <= dl_max_retries
        /\ (dl_pc = "loop" /\ dl_log' # dl_log)
           => LET n == Len(dl_log')
                  class == dl_log'[n] IN
              /\ dl_requests'[LastCall'] = n
              /\ class \in DownloadOutcomes
              /\ class = "ok"
                   => dl_returns' = Append(dl_returns, "True")
              /\ (class # "ok" /\ n < dl_max_retries)
                   => dl_pc' = "loop" /\ dl_returns' = dl_returns
              /\ (class # "ok" /\ n = dl_max_retries)
                   => dl_returns' = Append(dl_returns, "False")
              /\ \A i \in 1..(n - 1) : dl_log'[i] # "ok"
      ]_vars

\* three passes failed in three different ways and the call gave up
C12_Witness ==
    /\ dl_returns = <<"False">>
    /\ dl_log = <<"http_error", "timeout", "undersized">>
    /\ dl_requests = <<dl_max_retries>>

\* pages of the latest extract_ocr_only call with the given future state
PagesIn(state) == {i \in Pages : page_state[i] = state}

Elems(seq) == {seq[k] : k \in 1..Len(seq)}

\* C13: a page whose OCR request failed on every pass, or whose OCR text is
\* empty or does not parse, becomes a dropped page and never an exception;
\* when extract_ocr_only returns, its page list holds exactly the pages
\* that succeeded, and the task goes on to the analyze stage with it.
C13_PageDropped ==
    [][ /\ \A i \in Pages :
             page_out'[i] \in {"fail", "empty", "unparsable"}
               => page_state'[i] = "dropped"
        /\ \A p \in Papers :
             (pc[p] = "ocr_call" /\ ex_pc = "pool" /\ ex_pc' = "idle")
               => /\ Elems(ocr_results') = PagesIn("ok")
                  /\ Len(ocr_results') = Cardinality(PagesIn("ok"))
                  /\ pc'[p] = "llm_wait"
                  /\ ret'[p] = "running"
                  /\ ocr_result'[p] = IF PagesIn("ok") = {} THEN "empty" ELSE "pages"
      ]_vars

\* one page used up its OCR passes, another succeeded, and the analyze
\* call is working on the one page that is left
C13_Witness ==
    \E p \in Papers : \E i, j \in Pages :
        /\ page_state[i] = "dropped"
        /\ page_out[i] = "fail"
        /\ page_state[j] = "ok"
        /\ ocr_results = <<j>>
        /\ pc[p] = "llm_call"
        /\ an_pc = "content"

\* the orchestrator got no page: extract_ocr_only returned None on both
\* passes of its loop, or returned a page list that is empty
ZeroPages(p) ==
    /\ download_success[p] = "True"
    /\ ~skip_deep
    /\ \/ ocr_result[p] = "empty"
       \/ /\ ocr_result[p] = "None"
          /\ Has(started[p], "note")

\* C14: when no page of an interested, downloaded paper is extracted (no
\* page image, or every page dropped), the task does not end in an
\* exception, analyze_paper_content sends no request, the note call and
\* the archive call are each submitted once, in that order, and the paper
\* ends as an interested record without a deep analysis.
C14_ZeroPagesArchived ==
    \A p \in Papers :
        ZeroPages(p) =>
            /\ llm_requests = 0
            /\ an_analysis = "unset"
            /\ deep_analysis_result[p] = "None"
            /\ ret[p] \in {"running", "interested"}
            /\ Count(started[p], "note") <= 1
            /\ Count(started[p], "archive") <= 1
            /\ pc[p] = "done"
                 => /\ ret[p] = "interested"
                    /\ Count(started[p], "note") = 1
                    /\ started[p][Len(started[p])] = "archive"
                    /\ Count(started[p], "archive") = 1
            /\ reported => p \in Ids(interested)

\* every page of a two-page paper was dropped; the paper is in the
\* interested bucket of the report
C14_Witness ==
    \E p \in Papers :
        /\ image_paths = MaxPages
        /\ PagesIn("dropped") = Pages
        /\ ocr_result[p] = "empty"
        /\ llm_attempt[p] = max_llm_retries - 1
        /\ reported
        /\ p \in Ids(interested)

StrictlyIncreasing(seq) == \A k \in 1..(Len(seq) - 1) : seq[k] < seq[k + 1]

\* C15: whatever the order in which the page workers finished, the page
\* list the analyze stage is given is strictly increasing by page number
\* (so it has no duplicate).
C15_PagesSorted ==
    \A p \in Papers :
        pc[p] \in {"llm_wait", "llm_call", "llm_sleep"}
            => /\ StrictlyIncreasing(ocr_results)
               /\ Elems(ocr_results) \subseteq 1..image_paths

\* page 2 finished before page 1
C15_Witness ==
    \E p \in Papers :
        /\ pc[p] = "llm_call"
        /\ an_pc = "content"
        /\ Len(completed) >= 2
        /\ completed[1] > completed[2]
        /\ Len(ocr_results) >= 2

\* C16: analyze_paper_content sends at most max_retries requests; when all
\* of them fail it returns the empty analysis and raises nothing; unless
\* writing the files fails, analyze_with_llm then writes the note with
\* placeholders and returns a result, so the paper is archived and ends as
\* an interested record.
C16_AnalyzerFallback ==
    /\ llm_requests <= content_max_retries
    /\ an_pc # "raising"
    /\ an_analysis = "empty" => llm_requests = content_max_retries
    /\ \A p \in Papers :
         (Has(started[p], "llm") /\ an_analysis = "empty" /\ an_pc = "idle")
           => /\ note_md = "placeholder"
              /\ deep_analysis_result[p] = "ok"
              /\ ret[p] \in {"running", "interested"}
              /\ pc[p] = "done" => Count(started[p], "archive") = 1
              /\ reported => p \in Ids(interested)

C16_Witness ==
    \E p \in Papers :
        /\ an_analysis = "empty"
        /\ llm_requests = content_max_retries
        /\ note_md = "placeholder"
        /\ reported
        /\ p \in Ids(interested)

TransientErrors == {"transient", "transient400", "timeout_stored"}

\* C17: a pass of upload_paper_linked that ends in an exception whose
\* message holds handshake, timeout or connection is followed by another
\* pass, up to 3 passes in all; a pass that ends in a 400 error or in any
\* other error is the last one; whatever happened, the call returns and the
\* task gets its record: no exception reaches it.
C17_ArchiveRetries ==
    [][ \A p \in Papers :
          (pc[p] = "archive_call" /\ up_log' # up_log)
            => LET n == Len(up_log')
                   class == up_log'[n] IN
               /\ n <= upload_retries
               /\ \A k \in 1..(n - 1) : up_log'[k] \in TransientErrors
               /\ IF class \in TransientErrors /\ n < upload_retries
                    THEN /\ pc'[p] = "archive_call"
                         /\ ret'[p] = "running"
                    ELSE /\ pc'[p] = "done"
                         /\ ret'[p] = "interested"
      ]_vars

\* two transient errors, then a 400: the third pass was the last
C17_Witness ==
    \E p \in Papers :
        /\ pc[p] = "done"
        /\ ret[p] = "interested"
        /\ up_log = <<"transient", "transient", "400">>

\* the archive call of the paper ended on a 400 error
ArchiveClientError(p) ==
    /\ Has(started[p], "archive")
    /\ up_log # <<>>
    /\ up_log[Len(up_log)] = "400"

\* C18 as stated: a paper whose download never succeeds, whose OCR yields
\* no usable page, or whose archive call ends on a 400 error ends with a
\* failed record.
C18_PermanentFailed ==
    \A p \in Papers :
        (pc[p] = "done"
           /\ (download_success[p] = "False" \/ ZeroPages(p) \/ ArchiveClientError(p)))
          => ret[p] = "failed"

\* C18 amended: only the download that never succeeds gives a failed
\* record; a paper without a usable page and a paper whose archive call
\* ended on a 400 error end as interested records; in each case the run
\* goes on to its report.
C18_OnlyDownloadFailed ==
    \A p \in Papers :
        pc[p] = "done"
          => /\ download_success[p] = "False" => ret[p] = "failed"
             /\ ret[p] = "failed" => download_success[p] = "False"
             /\ (ZeroPages(p) \/ ArchiveClientError(p)) => ret[p] = "interested"
             /\ (download_success[p] = "False" \/ ZeroPages(p) \/ ArchiveClientError(p))
                  => reported \/ ENABLED PaperNext

\* the archive call ended on a 400 error and the paper was reported as
\* interested
C18_Witness ==
    \E p \in Papers :
        /\ pc[p] = "done"
        /\ ArchiveClientError(p)
        /\ reported
        /\ p \in Ids(interested)

\* collections of the library that carry the name n
Named(n) == {k \in 1..Len(remote) : remote[k].name = n}

\* threads between the lookup and the request for the name n
Creating(n) == {p \in Papers : coll[p].pc = "create" /\ coll[p].name = n}

\* C19: a call that missed the cache sends its create_collections request
\* whatever other calls have done since the miss, and a request that
\* succeeds adds a collection of that name; so two calls for a new name
\* that overlap create the category twice.
C19_CategoryRace ==
    [][ \A p \in Papers :
          (coll[p].pc = "create" /\ coll'[p].pc = "idle")
            => LET n == coll[p].name IN
               /\ creates'[n] = creates[n] + 1
               /\ coll'[p].ret # root_id
                    => remote' = Append(remote, [name |-> n, key |-> coll'[p].ret])
      ]_vars

\* the first calls of two threads were for the same new name, and the
\* library now holds two collections of that name
C19_Witness ==
    \E n \in Names : \E p, q \in Papers :
        /\ p # q
        /\ coll[p] = [pc |-> "idle", name |-> n, ret |-> coll[p].ret, calls |-> 1]
        /\ coll[q] = [pc |-> "idle", name |-> n, ret |-> coll[q].ret, calls |-> 1]
        /\ coll[p].ret # coll[q].ret
        /\ root_id \notin {coll[p].ret, coll[q].ret}
        /\ creates[n] = 2
        /\ Cardinality(Named(n)) = 2

\* C20: a name of the structure read at the start is never sent to
\* create_collections; a call that finds its name in the cache returns the
\* cached key and sends nothing; a successful create leaves its key in the
\* cache; and while no call for a name is between lookup and request, the
\* cached key of that name stays and nothing is created for it.
C20_CacheReused ==
    [][ /\ \A n \in structure' : creates'[n] = 0
        /\ \A p \in Papers :
             (coll[p].pc = "idle" /\ coll'[p].calls = coll[p].calls + 1
                /\ coll'[p].name \in DOMAIN collection_cache)
               => /\ coll'[p].pc = "idle"
                  /\ coll'[p].ret = collection_cache[coll'[p].name]
                  /\ creates' = creates
                  /\ remote' = remote
        /\ \A p \in Papers :
             (coll[p].pc = "create" /\ coll'[p].pc = "idle"
                /\ Len(remote') > Len(remote))
               => /\ coll[p].name \in DOMAIN collection_cache'
                  /\ collection_cache'[coll[p].name] = coll'[p].ret
        /\ \A n \in DOMAIN collection_cache :
             Creating(n) = {}
               => /\ n \in DOMAIN collection_cache'
                  /\ collection_cache'[n] = collection_cache[n]
                  /\ creates'[n] = creates[n]
      ]_vars

\* one thread created a new category, another asked for it afterwards and
\* got the same key; one request was sent
C20_Witness ==
    \E n \in Names : \E p, q \in Papers :
        /\ p # q
        /\ n \notin structure
        /\ coll[p].pc = "idle" /\ coll[p].name = n
        /\ coll[q].pc = "idle" /\ coll[q].name = n
        /\ coll[p].ret = coll[q].ret
        /\ coll[p].ret # root_id
        /\ creates[n] = 1
        /\ Cardinality(Named(n)) = 1

\* ============================================ main.generate_daily_report
\* One call of generate_daily_report(interested, ignored, date, local_dir):
\* the loop reading the notes, the batches, one summarize_papers_batch call
\* per batch, the generate_final_daily_report call and the document written.
Min(a, b) == IF a < b THEN a ELSE b

\* seq[:n]; a negative n leaves out the last -n elements
Take(seq, n) ==
    IF n >= 0 THEN SubSeq(seq, 1, Min(n, Len(seq)))
    ELSE SubSeq(seq, 1, IF Len(seq) + n > 0 THEN Len(seq) + n ELSE 0)

\* how reading one item's note ends: the file is read and parsed, there is
\* no note file and the basic fields are used, or reading raises
NoteOutcomes == {"note", "basic", "raise"}

\* main.py 196-229: the item is appended unless reading its note raised
ReadResult(notes, item, out) ==
    IF out = "raise" THEN notes ELSE Append(notes, item.id)

\* the slices leave out the notes after the last full batch
Batches_DropRemainder(notes) ==
    [k \in 1..(Len(notes) \div batch_size) |->
        SubSeq(notes, (k - 1) * batch_size + 1, k * batch_size)]

\* [papers_notes[i:i+batch_size] for i in range(0, len(papers_notes), batch_size)]
Batches(notes) ==
    [k \in 1..((Len(notes) + batch_size - 1) \div batch_size) |->
        SubSeq(notes, (k - 1) * batch_size + 1, Min(k * batch_size, Len(notes)))]

\* what the model returned for a batch: highlights for every paper, for
\* fewer papers, or nothing usable on every attempt (the fallback dict)
SummaryOutcomes == {"json", "short", "failed"}

\* llm_agent.summarize_papers_batch, its result as the number of
\* papers_highlights entries
BatchSummary(batch, out) ==
    [ok |-> out # "failed",
     highlights |-> CASE out = "json" -> Len(batch)
                      [] out = "short" -> Len(batch) - 1
                      [] out = "failed" -> 0]

FinalOutcomes == {"json", "failed"}

RECURSIVE Listed(_, _)
\* main.py 284-327: zip(batch, papers_highlights) lists a paper of a batch
\* only when the summary has a highlight at its position
Listed(bs, sums) ==
    IF bs = <<>> THEN <<>>
    ELSE Take(Head(bs), Head(sums).highlights) \o Listed(Tail(bs), Tail(sums))

\* main.py 350-363: rows for ignored[:15], each with the item's reason
IgnoredTable(ign) == [i \in 1..Min(ignored_shown, Len(ign)) |-> ign[i].id]

\* main.py 186-189
MinimalDigest ==
    [kind |-> "minimal", notes |-> 0, overview |-> "none",
     listed |-> <<>>, table |-> <<>>]

\* main.py 253-368
FullDigest(notes, sums, final, ign) ==
    [kind |-> "full", notes |-> Len(notes), overview |-> final,
     listed |-> Listed(Batches(notes), sums), table |-> IgnoredTable(ign)]

\* main.py 183-194: without interested items the minimal document is
\* written and the call returns; otherwise the reading loop starts.
ReportBegin ==
    /\ rp_pc = "idle"
    /\ IF rp_interested = <<>>
         THEN /\ digest' = MinimalDigest
              /\ rp_pc' = "done"
              /\ rp_i' = rp_i
         ELSE /\ rp_pc' = "read"
              /\ rp_i' = 1
              /\ digest' = digest
    /\ UNCHANGED <<rp_interested, rp_ignored, papers_notes, batch_summaries, rp_calls>>
    /\ UNCHANGED pipelineVars
    /\ UNCHANGED reportRest

\* main.py 196-229: one pass of `for item in interested`
ReportRead ==
    /\ rp_pc = "read"
    /\ rp_i <= Len(rp_interested)
    /\ \E out \in NoteOutcomes :
         papers_notes' = ReadResult(papers_notes, rp_interested[rp_i], out)
    /\ rp_i' = rp_i + 1
    /\ UNCHANGED <<rp_interested, rp_ignored, rp_pc, batch_summaries, rp_calls, digest>>
    /\ UNCHANGED pipelineVars
    /\ UNCHANGED reportRest

\* main.py 231-240: nothing could be read -> return, no document written;
\* otherwise the batches are cut.
ReportSplit ==
    /\ rp_pc = "read"
    /\ rp_i > Len(rp_interested)
    /\ rp_pc' = IF papers_notes = <<>> THEN "done" ELSE "batch"
    /\ UNCHANGED <<rp_interested, rp_ignored, rp_i, papers_notes, batch_summaries,
                   rp_calls, digest>>
    /\ UNCHANGED pipelineVars
    /\ UNCHANGED reportRest

\* main.py 243-246: one pass of `for batch_idx, batch in enumerate(batches)`
SummarizeBatch ==
    /\ rp_pc = "batch"
    /\ Len(batch_summaries) < Len(Batches(papers_notes))
    /\ LET batch_idx == Len(batch_summaries) + 1 IN
         /\ \E out \in SummaryOutcomes :
              batch_summaries' =
                  Append(batch_summaries,
                         BatchSummary(Batches(papers_notes)[batch_idx], out))
         /\ rp_calls' = Append(rp_calls, [fn |-> "summarize_papers_batch",
                                          arg |-> batch_idx])
    /\ UNCHANGED <<rp_interested, rp_ignored, rp_pc, rp_i, papers_notes, digest>>
    /\ UNCHANGED pipelineVars
    /\ UNCHANGED reportRest

\* main.py 250-369: generate_final_daily_report(batch_summaries, ...), then
\* the document is built and written.
FinalReport ==
    /\ rp_pc = "batch"
    /\ Len(batch_summaries) = Len(Batches(papers_notes))
    /\ rp_calls' = Append(rp_calls, [fn |-> "generate_final_daily_report",
                                     arg |-> Len(batch_summaries)])
    /\ \E out \in FinalOutcomes :
         digest' = FullDigest(papers_notes, batch_summaries, out, rp_ignored)
    /\ rp_pc' = "done"
    /\ UNCHANGED <<rp_interested, rp_ignored, rp_i, papers_notes, batch_summaries>>
    /\ UNCHANGED pipelineVars
    /\ UNCHANGED reportRest

\* the lists main_async hands over: records of its two buckets
ReportInit ==
    /\ arxiv_ids = {}
    /\ skip_deep = FALSE
    /\ PipelineStart
    /\ FetchIdle
    /\ OcrIdle
    /\ AnalyzeIdle
    /\ UploadIdle
    /\ ZoteroIdle
    /\ \E ni \in 0..MaxInterested : \E ng \in 0..MaxIgnored :
         /\ rp_interested = [i \in 1..ni |-> [id |-> i, status |-> "interested"]]
         /\ rp_ignored = [i \in 1..ng |-> [id |-> ni + i, status |-> "ignored"]]
    /\ rp_pc = "idle"
    /\ rp_i = 0
    /\ papers_notes = <<>>
    /\ batch_summaries = <<>>
    /\ rp_calls = <<>>
    /\ digest = [kind |-> "absent", notes |-> 0, overview |-> "none",
                 listed |-> <<>>, table |-> <<>>]
    /\ TokenIdle
    /\ DirIdle
    /\ FigureIdle
    /\ ParseIdle
    /\ BackoffIdle
    /\ TextIdle
    /\ PoolIdle

ReportNext ==
    \/ ReportBegin
    \/ ReportRead
    \/ ReportSplit
    \/ SummarizeBatch
    \/ FinalReport

ReportSpec == ReportInit /\ [][ReportNext]_vars

\* C21: when the run has ended, generate_daily_report has been called, so
\* that a digest document was emitted.
C21_DigestEmitted == mainpc = "done" => reported

\* C22: every ignored record handed to the report has a row in the ignored
\* table of the document that was written.
C22_IgnoredListed ==
    rp_pc = "done" /\ digest.kind # "absent" =>
        \A i \in 1..Len(rp_ignored) : Has(digest.table, rp_ignored[i].id)

RECURSIVE Concat(_)
\* the batches put one after the other
Concat(bs) == IF bs = <<>> THEN <<>> ELSE Head(bs) \o Concat(Tail(bs))

\* C23: the notes are cut, in order, into consecutive batches of at most
\* batch_size notes, none empty, all but the last full, together holding
\* every note once; the calls of a finished report are one
\* summarize_papers_batch call per batch, in order, followed by one
\* generate_final_daily_report call that is given all the summaries, and
\* the final call is never made earlier.
C23_TwoLevelReduce ==
    LET bs == Batches(papers_notes)
        nb == Len(bs)
    IN /\ Concat(bs) = papers_notes
       /\ \A k \in 1..nb :
            /\ Len(bs[k]) \in 1..batch_size
            /\ k < nb => Len(bs[k]) = batch_size
       /\ \A i \in 1..Len(rp_calls) :
            IF i <= nb
              THEN rp_calls[i] = [fn |-> "summarize_papers_batch", arg |-> i]
              ELSE /\ i = nb + 1
                   /\ rp_calls[i] = [fn |-> "generate_final_daily_report", arg |-> nb]
                   /\ Len(batch_summaries) = nb
       /\ rp_pc = "done" /\ papers_notes # <<>> =>
            /\ Len(rp_calls) = nb + 1
            /\ Len(batch_summaries) = nb

\* a finished report over more notes than one batch holds: a full batch and
\* a shorter last one, two summary calls and the final call
C23_Witness ==
    /\ rp_pc = "done"
    /\ Len(papers_notes) > batch_size
    /\ Len(Batches(papers_notes)) = 2
    /\ Len(Batches(papers_notes)[2]) < batch_size
    /\ Len(rp_calls) = 3

\* ======================================= main_async, --skip-deep-analysis
\* The pipeline of a run started with --skip-deep-analysis: after the
\* download every task goes on to note and archive (main.py 77), so the
\* OCR and LLM gates are never asked for.
GatePapers == 1..NumGatePapers

GateInit ==
    /\ arxiv_ids = GatePapers
    /\ skip_deep = TRUE
    /\ PipelineStartOver(GatePapers)
    /\ FetchIdle
    /\ OcrIdle
    /\ AnalyzeIdle
    /\ UploadIdle
    /\ ZoteroIdle
    /\ ReportIdle
    /\ TokenIdle
    /\ DirIdle
    /\ FigureIdle
    /\ ParseIdle
    /\ BackoffIdle
    /\ TextIdle
    /\ PoolIdle

GateStep(p) ==
    \/ FilterEnter(p)
    \/ FilterAttempt(p)
    \/ FilterResume(p)
    \/ DownloadEnter(p)
    \/ DownloadAttempt(p)
    \/ DownloadResume(p)
    \/ NoteResume(p)
    \/ ArchiveResume(p)

GateNext ==
    \/ MainStart
    \/ FetchMetaYield
    \/ FetchMetaLose
    \/ FetchMetaEnd
    \/ MainGet
    \/ MainGather
    \/ GenerateDailyReport
    \/ \E p \in GatePapers : GateStep(p)

GateSpec == GateInit /\ [][GateNext]_vars

\* C24: a task that stands before a gate with a free permit can enter it,
\* whatever the other tasks do - in particular while another task waits
\* before a different gate that is full.
C24_Pipelined ==
    \A p \in GatePapers :
        /\ pc[p] = "filter_wait" /\ CanAcquire("filter") => ENABLED FilterEnter(p)
        /\ pc[p] = "download_wait" /\ CanAcquire("download") => ENABLED DownloadEnter(p)

\* one paper is inside the filter call and the filter gate is full, a second
\* waits before that gate, and a third is inside the download call
C24_Witness ==
    \E p, q, r \in GatePapers :
        /\ pc[p] = "filter_call"
        /\ ~CanAcquire("filter")
        /\ pc[q] = "filter_wait"
        /\ pc[r] = "download_call"

\* ============================================ paper_analyzer.token_usage
\* The module-level dict token_usage under the extract_ocr_only and
\* analyze_with_llm calls of the papers.  The calls run on executor threads;
\* the OCR gate admits ocr_limit extract calls and the LLM gate llm_limit
\* analyze calls at a time.  Each `+= 1` is taken as one step.
InCall(position) == {p \in Papers : tk_pc[p] = position}

\* paper_analyzer.py 783-790: the global is rebound to a dict of zeros
TkExtractBegin(p) ==
    /\ tk_pc[p] = "idle"
    /\ Cardinality(InCall("ocr")) < ocr_limit
    /\ token_usage' = ZeroUsage
    /\ tk_pc' = [tk_pc EXCEPT ![p] = "ocr"]
    /\ UNCHANGED <<own_calls, ocr_data_usage, token_info_summary>>
    /\ UNCHANGED pipelineVars
    /\ UNCHANGED tokenRest

\* paper_analyzer.py 134-143: an OCR request of the paper got its response
TkOcrCall(p) ==
    /\ tk_pc[p] = "ocr"
    /\ own_calls[p].ocr_calls < MaxPages
    /\ token_usage' = [token_usage EXCEPT !.ocr_calls = @ + 1]
    /\ own_calls' = [own_calls EXCEPT ![p].ocr_calls = @ + 1]
    /\ UNCHANGED <<tk_pc, ocr_data_usage, token_info_summary>>
    /\ UNCHANGED pipelineVars
    /\ UNCHANGED tokenRest

\* paper_analyzer.py 845-868: ocr_data takes its counts from the global
TkExtractReturn(p) ==
    /\ tk_pc[p] = "ocr"
    /\ ocr_data_usage' = [ocr_data_usage EXCEPT ![p] = token_usage.ocr_calls]
    /\ tk_pc' = [tk_pc EXCEPT ![p] = "ocr_done"]
    /\ UNCHANGED <<token_usage, own_calls, token_info_summary>>
    /\ UNCHANGED pipelineVars
    /\ UNCHANGED tokenRest

\* paper_analyzer.py 883-904: the global is rebound to the paper's saved
\* OCR counts and zero LLM counts; without OCR results the call returns None
TkAnalyzeBegin(p) ==
    /\ tk_pc[p] = "ocr_done"
    /\ Cardinality(InCall("llm")) < llm_limit
    /\ token_usage' = [ocr_calls |-> ocr_data_usage[p], llm_calls |-> 0]
    /\ tk_pc' = [tk_pc EXCEPT ![p] = IF own_calls[p].ocr_calls = 0 THEN "done" ELSE "llm"]
    /\ UNCHANGED <<own_calls, ocr_data_usage, token_info_summary>>
    /\ UNCHANGED pipelineVars
    /\ UNCHANGED tokenRest

\* paper_analyzer.py 420-429: a request of analyze_paper_content got its
\* response (its JSON may still fail to parse, and the loop goes on)
TkLlmCall(p) ==
    /\ tk_pc[p] = "llm"
    /\ own_calls[p].llm_calls < content_max_retries
    /\ token_usage' = [token_usage EXCEPT !.llm_calls = @ + 1]
    /\ own_calls' = [own_calls EXCEPT ![p].llm_calls = @ + 1]
    /\ UNCHANGED <<tk_pc, ocr_data_usage, token_info_summary>>
    /\ UNCHANGED pipelineVars
    /\ UNCHANGED tokenRest

\* paper_analyzer.py 918-950: token_info_summary is read from the global
\* and written into note.md and analysis.json
TkAnalyzeReturn(p) ==
    /\ tk_pc[p] = "llm"
    /\ token_info_summary' =
           [token_info_summary EXCEPT ![p] = [written |-> TRUE,
                                             ocr_calls |-> token_usage.ocr_calls,
                                             llm_calls |-> token_usage.llm_calls]]
    /\ tk_pc' = [tk_pc EXCEPT ![p] = "done"]
    /\ UNCHANGED <<token_usage, own_calls, ocr_data_usage>>
    /\ UNCHANGED pipelineVars
    /\ UNCHANGED tokenRest

TokenInit ==
    /\ arxiv_ids = Papers
    /\ skip_deep = FALSE
    /\ PipelineStart
    /\ FetchIdle
    /\ OcrIdle
    /\ AnalyzeIdle
    /\ UploadIdle
    /\ ZoteroIdle
    /\ ReportIdle
    /\ TokenIdle
    /\ DirIdle
    /\ FigureIdle
    /\ ParseIdle
    /\ BackoffIdle
    /\ TextIdle
    /\ PoolIdle

TokenNext ==
    \E p \in Papers :
        \/ TkExtractBegin(p)
        \/ TkOcrCall(p)
        \/ TkExtractReturn(p)
        \/ TkAnalyzeBegin(p)
        \/ TkLlmCall(p)
        \/ TkAnalyzeReturn(p)

TokenSpec == TokenInit /\ [][TokenNext]_vars

\* C25: the OCR and LLM call counts written into a paper's note and
\* analysis record are the numbers of responses to that paper's own calls.
C25_OwnCounts ==
    \A p \in Papers :
        token_info_summary[p].written =>
            /\ token_info_summary[p].ocr_calls = own_calls[p].ocr_calls
            /\ token_info_summary[p].llm_calls = own_calls[p].llm_calls

\* ================================== process_paper_async, paper directories
\* The directory of a paper: <local_dir>/<category>/<first_author>_<title>,
\* author and title passed through utils.sanitize_filename and the title
\* cut to title_cut characters.  Strings are sequences of characters.
\* members of the class [\\/*?:"<>|] that utils.sanitize_filename removes
IllegalChars == {"/", "?", ":"}

RECURSIVE LStrip(_)
LStrip(str) ==
    IF str # <<>> /\ Head(str) = " " THEN LStrip(Tail(str)) ELSE str

RECURSIVE RStrip(_)
RStrip(str) ==
    IF str # <<>> /\ str[Len(str)] = " "
      THEN RStrip(SubSeq(str, 1, Len(str) - 1))
      ELSE str

\* re.sub(r'[\\/*?:"<>|]', "", filename).strip().replace(' ', '_')
sanitize_filename(filename) ==
    LET kept == SelectSeq(filename, LAMBDA c : c \notin IllegalChars)
        stripped == RStrip(LStrip(kept))
    IN [i \in 1..Len(stripped) |-> IF stripped[i] = " " THEN "_" ELSE stripped[i]]

\* main.py 47-55: the path below local_dir, as <<category, sub-directory>>
PaperDir(cat, m) ==
    LET short_title == Take(sanitize_filename(m.title), title_cut)
        first_author == sanitize_filename(m.author)
    IN <<cat, first_author \o <<"_">> \o short_title>>

\* titles of n characters that differ in their last character only
TitleOf(n, c) == [i \in 1..n |-> IF i = n THEN c ELSE "a"]

Titles == {TitleOf(n, c) : n \in (title_cut - 1)..MaxTitleLen,
                           c \in {"b", "c", "/", " "}}

Authors == {<<"D", "o", "e">>, <<"R", "o", "e">>}

\* main.py 46-58: os.makedirs(category_dir), os.makedirs(paper_dir)
MakeDirs(p) ==
    /\ paper_dir[p] = <<>>
    /\ paper_dir' = [paper_dir EXCEPT ![p] = PaperDir(category[p], meta[p])]
    /\ UNCHANGED <<meta, category>>
    /\ UNCHANGED pipelineVars
    /\ UNCHANGED dirRest

\* the papers of a run: distinct identifiers whose records differ in title
\* or first author, each with the category the filter gave it
DirInit ==
    /\ arxiv_ids = Papers
    /\ skip_deep = FALSE
    /\ PipelineStart
    /\ FetchIdle
    /\ OcrIdle
    /\ AnalyzeIdle
    /\ UploadIdle
    /\ ZoteroIdle
    /\ ReportIdle
    /\ TokenIdle
    /\ meta \in [Papers -> [title : Titles, author : Authors]]
    /\ \A p, q \in Papers : p # q => meta[p] # meta[q]
    /\ category \in [Papers -> Names]
    /\ paper_dir = [p \in Papers |-> <<>>]
    /\ FigureIdle
    /\ ParseIdle
    /\ BackoffIdle
    /\ TextIdle
    /\ PoolIdle

DirNext == \E p \in Papers : MakeDirs(p)

DirSpec == DirInit /\ [][DirNext]_vars

\* C26: two distinct papers of a run whose directories were made never
\* have the same directory.
C26_OwnDirectory ==
    \A p, q \in Papers :
        p # q /\ paper_dir[p] # <<>> /\ paper_dir[q] # <<>> =>
            paper_dir[p] # paper_dir[q]

\* ===================================================== Spec with fairness
\* The event loop runs main_async and every task that can run, the
\* fetch_meta thread runs on, and every call handed to the executor is
\* worked on until it returns.
MainSteps == MainStart \/ MainGet \/ MainGather \/ GenerateDailyReport

MetaSteps == FetchMetaYield \/ FetchMetaLose \/ FetchMetaEnd

LiveSpec ==
    /\ Spec
    /\ WF_vars(MainSteps)
    /\ WF_vars(MetaSteps)
    /\ \A p \in Papers : WF_vars(PaperStep(p))

\* C27: the run eventually reaches report generation.
C27_ReachesReport == <>reported

\* ====================================== paper_analyzer, figures of a paper
\* A figure candidate is a record of its type, the keyword families found in
\* its caption ("arch": arch, framework, overview, model, structure,
\* pipeline, system; "design"; "result": result, performance, comparison,
\* ablation, accuracy, loss, curve, plot), its bbox and its index, which
\* stands for its crop_path as well.
Captions == {{}, {"arch"}, {"design"}, {"result"}, {"arch", "result"}}

\* type and caption of the candidates
FigureKinds ==
    {[type |-> "figure", caption |-> c] : c \in Captions}
        \cup {[type |-> "table", caption |-> {}]}

\* paper_analyzer.py 462-480: table, architecture figure or result figure
FigureClass(fig) ==
    IF fig.type = "table" THEN "table"
    ELSE IF fig.caption \cap {"arch", "design"} # {} THEN "arch"
    ELSE "result"

OfClass(figs, class) == SelectSeq(figs, LAMBDA f : FigureClass(f) = class)

\* the list is returned without the final cut
select_key_figures_for_report_NoCut(figs, maxf) ==
    IF figs = <<>> THEN <<>>
    ELSE LET picked == Take(OfClass(figs, "arch"), 2)
                         \o Take(OfClass(figs, "result"), 2)
                         \o Take(OfClass(figs, "table"), 1)
             remaining == SelectSeq(figs, LAMBDA f : ~Has(picked, f))
         IN picked \o Take(remaining, maxf - Len(picked))

\* paper_analyzer.py 449-497
select_key_figures_for_report(figs, maxf) ==
    IF figs = <<>> THEN <<>>
    ELSE LET picked == Take(OfClass(figs, "arch"), 2)
                         \o Take(OfClass(figs, "result"), 2)
                         \o Take(OfClass(figs, "table"), 1)
             remaining == SelectSeq(figs, LAMBDA f : ~Has(picked, f))
         IN Take(picked \o Take(remaining, maxf - Len(picked)), maxf)

RECURSIVE Embed(_, _)
\* paper_analyzer.py 552-564, 578-592: a figure is embedded unless its path
\* is in used_figures
Embed(figs, used) ==
    IF figs = <<>> THEN used
    ELSE Embed(Tail(figs),
               IF Has(used, Head(figs).index) THEN used
               ELSE Append(used, Head(figs).index))

\* paper_analyzer.py 546-592: the crop paths embedded in note.md, in order
NoteFigures(sel) ==
    LET arch_figures == SelectSeq(sel, LAMBDA f : f.type = "figure" /\ "arch" \in f.caption)
        result_figures == SelectSeq(sel, LAMBDA f :
                              \/ f.type = "figure" /\ "result" \in f.caption
                              \/ f.type = "table")
    IN Embed(Take(result_figures, 3), Embed(Take(arch_figures, 2), <<>>))

\* side of the page image in pixels (img.size)
PageSide == 100

\* bboxes the OCR model gives, on its 0..1000 scale: a region of the page,
\* one of no width, one thinner than a pixel, one right of the page
Boxes == {<<100, 100, 600, 600>>, <<500, 100, 500, 600>>,
          <<101, 100, 105, 600>>, <<1200, 0, 1400, 500>>}

\* int(c / 1000 * width)
Scale(c) == (c * PageSide) \div 1000

\* paper_analyzer.py 248-258: the crop is saved when the clamped box has area
CropSaved(bbox) ==
    LET x1 == IF Scale(bbox[1]) > 0 THEN Scale(bbox[1]) ELSE 0
        y1 == IF Scale(bbox[2]) > 0 THEN Scale(bbox[2]) ELSE 0
        x2 == Min(PageSide, Scale(bbox[3]))
        y2 == Min(PageSide, Scale(bbox[4]))
    IN x2 > x1 /\ y2 > y1

\* the regions extract_key_figures looks at
IsFigureItem(item) == item.type \in {"figure", "table"}

\* paper_analyzer.py 323-352: the candidates of a page, in order; the caption
\* of a region is the text of the caption region found after it
KeyFigures(items) ==
    LET idx == SelectSeq([i \in 1..Len(items) |-> i],
                         LAMBDA i : IsFigureItem(items[i]))
    IN [k \in 1..Len(idx) |->
           [type |-> items[idx[k]].type, caption |-> items[idx[k]].caption,
            bbox |-> items[idx[k]].bbox, index |-> idx[k]]]

\* process_single_page 196-200: extract_key_figures crops every figure and
\* table region and returns the candidates
ExtractKeyFigures ==
    /\ fig_pc = "items"
    /\ all_figures' = KeyFigures(ocr_items)
    /\ crop_files' = crop_files \cup
           {i \in 1..Len(ocr_items) :
               IsFigureItem(ocr_items[i]) /\ CropSaved(ocr_items[i].bbox)}
    /\ fig_pc' = "candidates"
    /\ UNCHANGED <<ocr_items, max_figures, selected_figures, embedded>>
    /\ UNCHANGED pipelineVars
    /\ UNCHANGED figRest

\* analyze_with_llm 911-912
SelectFigures ==
    /\ fig_pc = "candidates"
    /\ selected_figures' = select_key_figures_for_report(all_figures, max_figures)
    /\ fig_pc' = "selected"
    /\ UNCHANGED <<ocr_items, crop_files, all_figures, max_figures, embedded>>
    /\ UNCHANGED pipelineVars
    /\ UNCHANGED figRest

\* analyze_with_llm 929: generate_paper_note(..., selected_figures, ...)
WriteNote ==
    /\ fig_pc = "selected"
    /\ embedded' = NoteFigures(selected_figures)
    /\ fig_pc' = "noted"
    /\ UNCHANGED <<ocr_items, crop_files, all_figures, max_figures, selected_figures>>
    /\ UNCHANGED pipelineVars
    /\ UNCHANGED figRest

\* lists of candidates of every kind, each with a crop file of its own
CandidateLists ==
    UNION {[1..n -> FigureKinds] : n \in 0..MaxFigures}

SelectInit ==
    /\ arxiv_ids = {}
    /\ skip_deep = FALSE
    /\ PipelineStart
    /\ FetchIdle
    /\ OcrIdle
    /\ AnalyzeIdle
    /\ UploadIdle
    /\ ZoteroIdle
    /\ ReportIdle
    /\ TokenIdle
    /\ DirIdle
    /\ ocr_items = <<>>
    /\ \E kinds \in CandidateLists :
         /\ all_figures = [i \in 1..Len(kinds) |->
                [type |-> kinds[i].type, caption |-> kinds[i].caption,
                 bbox |-> <<100, 100, 600, 600>>, index |-> i]]
         /\ crop_files = 1..Len(kinds)
    /\ max_figures \in 0..MaxFiguresCfg
    /\ selected_figures = <<>>
    /\ embedded = <<>>
    /\ fig_pc = "candidates"
    /\ ParseIdle
    /\ BackoffIdle
    /\ TextIdle
    /\ PoolIdle

SelectNext == SelectFigures \/ WriteNote

SelectSpec == SelectInit /\ [][SelectNext]_vars

\* the regions of a page: figures, tables and text, each with a bbox
ItemKinds == FigureKinds \cup {[type |-> "text", caption |-> {}]}

CropInit ==
    /\ arxiv_ids = {}
    /\ skip_deep = FALSE
    /\ PipelineStart
    /\ FetchIdle
    /\ OcrIdle
    /\ AnalyzeIdle
    /\ UploadIdle
    /\ ZoteroIdle
    /\ ReportIdle
    /\ TokenIdle
    /\ DirIdle
    /\ \E n \in 0..MaxItems :
         ocr_items \in [1..n -> {[type |-> k.type, caption |-> k.caption, bbox |-> b] :
                                     k \in ItemKinds, b \in Boxes}]
    /\ crop_files = {}
    /\ all_figures = <<>>
    /\ max_figures \in 0..MaxFiguresCfg
    /\ selected_figures = <<>>
    /\ embedded = <<>>
    /\ fig_pc = "items"
    /\ ParseIdle
    /\ BackoffIdle
    /\ TextIdle
    /\ PoolIdle

CropNext == ExtractKeyFigures \/ SelectFigures \/ WriteNote

CropSpec == CropInit /\ [][CropNext]_vars

\* the indexes of a list of figures
Indexes(figs) == [i \in 1..Len(figs) |-> figs[i].index]

\* no element twice
NoRepeat(seq) == \A i, j \in 1..Len(seq) : i # j => seq[i] # seq[j]

\* C28: the selector returns at most max_figures figures, each a candidate
\* and none twice, and the note embeds at most max_figures images, all of
\* selected figures and none twice.
C28_FigureCap ==
    /\ fig_pc \in {"selected", "noted"} =>
         /\ Len(selected_figures) <= max_figures
         /\ NoRepeat(Indexes(selected_figures))
         /\ \A i \in 1..Len(selected_figures) : Has(all_figures, selected_figures[i])
    /\ fig_pc = "noted" =>
         /\ Len(embedded) <= max_figures
         /\ NoRepeat(embedded)
         /\ \A i \in 1..Len(embedded) : Has(Indexes(selected_figures), embedded[i])

\* more candidates were picked by class than max_figures allows, the list
\* was cut to max_figures, and the note embeds as many images
C28_Witness ==
    /\ fig_pc = "noted"
    /\ Len(all_figures) > max_figures
    /\ Len(OfClass(all_figures, "arch")) >= 2
    /\ Len(OfClass(all_figures, "result")) >= 2
    /\ Len(OfClass(all_figures, "table")) >= 1
    /\ Len(selected_figures) = max_figures
    /\ Len(embedded) = max_figures

\* C29: every selected figure and every image the note embeds has a crop
\* file that exists.
C29_CropExists ==
    fig_pc \in {"selected", "noted"} =>
        /\ \A i \in 1..Len(selected_figures) : selected_figures[i].index \in crop_files
        /\ \A i \in 1..Len(embedded) : embedded[i] \in crop_files

\* ====================================== paper_analyzer, parse_ocr_response
\* A string is a sequence of characters.
Digits == <<"0", "1", "2", "3", "4", "5", "6", "7", "8", "9">>

DigitChars == {Digits[i] : i \in 1..10}

\* \w of the tag pattern, over the letters the responses are written with
WordChars == {"a", "b", "e", "l", "t", "x", "_"} \cup DigitChars

\* \s
Whitespace == {" ", "\n"}

\* [\d,\s,] of the tag pattern
RectChars == DigitChars \cup {","} \cup Whitespace

\* str(n) of a natural number
RECURSIVE FormatInt(_)
FormatInt(n) ==
    IF n < 10 THEN <<Digits[n + 1]>>
    ELSE FormatInt(n \div 10) \o <<Digits[(n % 10) + 1]>>

\* int(x) of a string of digits
RECURSIVE ParseInt(_)
ParseInt(x) ==
    IF x = <<>> THEN 0
    ELSE 10 * ParseInt(SubSeq(x, 1, Len(x) - 1))
           + (CHOOSE d \in 0..9 : Digits[d + 1] = x[Len(x)])

\* the last position of the longest run of characters of a class that
\* starts at position i; i - 1 when there is none
RECURSIVE RunEnd(_, _, _)
RunEnd(str, i, class) ==
    IF i <= Len(str) /\ str[i] \in class THEN RunEnd(str, i + 1, class) ELSE i - 1

\* paper_analyzer.py 213: the last position of the match of
\* (?P<type>\w+)\[\[(?P<rect>[\d,\s,]+)\]\] that starts at position i, 0 when
\* there is none; both + are greedy and what follows them is outside
\* their class
TagEnd(str, i) ==
    LET j == RunEnd(str, i, WordChars)
        k == RunEnd(str, j + 3, RectChars)
    IN IF /\ j >= i
          /\ j + 2 <= Len(str)
          /\ str[j + 1] = "["
          /\ str[j + 2] = "["
          /\ k >= j + 3
          /\ k + 2 <= Len(str)
          /\ str[k + 1] = "]"
          /\ str[k + 2] = "]"
       THEN k + 2
       ELSE 0

\* paper_analyzer.py 214: tag_pattern.finditer(content), the matches from
\* left to right, none overlapping
RECURSIVE finditer(_, _)
finditer(str, pos) ==
    IF pos > Len(str) THEN <<>>
    ELSE IF TagEnd(str, pos) # 0
      THEN <<[start |-> pos, end |-> TagEnd(str, pos)]>>
               \o finditer(str, TagEnd(str, pos) + 1)
      ELSE finditer(str, pos + 1)

\* paper_analyzer.py 222: [int(x) for x in re.split(r'[,\s]+', rect.strip()) if x]
RECURSIVE Numbers(_)
Numbers(rect) ==
    IF rect = <<>> THEN <<>>
    ELSE IF Head(rect) \in DigitChars
      THEN LET e == RunEnd(rect, 1, DigitChars)
           IN <<ParseInt(SubSeq(rect, 1, e))>> \o Numbers(SubSeq(rect, e + 1, Len(rect)))
      ELSE Numbers(Tail(rect))

\* str.strip()
RECURSIVE strip(_)
strip(str) ==
    IF str # <<>> /\ Head(str) \in Whitespace THEN strip(Tail(str))
    ELSE IF str # <<>> /\ str[Len(str)] \in Whitespace
      THEN strip(SubSeq(str, 1, Len(str) - 1))
      ELSE str

\* the text is kept as it stands in the response
parse_ocr_response_Unstripped(content) ==
    LET matches == finditer(content, 1)
    IN [i \in 1..Len(matches) |->
          LET label_end == RunEnd(content, matches[i].start, WordChars)
              end_idx == IF i < Len(matches) THEN matches[i + 1].start - 1
                         ELSE Len(content)
          IN [type |-> SubSeq(content, matches[i].start, label_end),
              bbox |-> Numbers(SubSeq(content, label_end + 3, matches[i].end - 2)),
              text |-> SubSeq(content, matches[i].end + 1, end_idx)]]

\* paper_analyzer.py 210-240
parse_ocr_response(content) ==
    LET matches == finditer(content, 1)
    IN [i \in 1..Len(matches) |->
          LET label_end == RunEnd(content, matches[i].start, WordChars)
              end_idx == IF i < Len(matches) THEN matches[i + 1].start - 1
                         ELSE Len(content)
          IN [type |-> SubSeq(content, matches[i].start, label_end),
              bbox |-> Numbers(SubSeq(content, label_end + 3, matches[i].end - 2)),
              text |-> strip(SubSeq(content, matches[i].end + 1, end_idx))]]

\* the types of the region tags
TagTypes == {<<"t", "e", "x", "t">>, <<"t", "a", "b", "l", "e">>}

\* the boxes of the region tags and what stands between their numbers
TagRects == {[bbox |-> <<0, 7, 10, 205>>, sep |-> <<",">>],
             [bbox |-> <<12, 0, 999, 1000>>, sep |-> <<",", " ">>]}

\* the texts after a region tag
TagTexts == UNION {[1..n -> {"a", "\n"}] : n \in 0..MaxTextLen}

\* x1,y1,x2,y2
RectString(bbox, sep) ==
    FormatInt(bbox[1]) \o sep \o FormatInt(bbox[2]) \o sep
        \o FormatInt(bbox[3]) \o sep \o FormatInt(bbox[4])

\* TYPE[[x1,y1,x2,y2]]<text>
Render(tag) ==
    tag.type \o <<"[", "[">> \o RectString(tag.bbox, tag.sep) \o <<"]", "]">> \o tag.text

\* process_single_page 176
ParseOcrResponse ==
    /\ parse_pc = "response"
    /\ ocr_items' = parse_ocr_response(ocr_text)
    /\ parse_pc' = "parsed"
    /\ UNCHANGED <<tags, ocr_text>>
    /\ UNCHANGED <<crop_files, all_figures, max_figures, selected_figures, embedded, fig_pc>>
    /\ UNCHANGED pipelineVars
    /\ UNCHANGED <<fetchVars, ocrVars, anVars, upVars, zotVars, reportVars, tokenVars, dirVars>>
    /\ UNCHANGED <<backoffVars, textVars, poolVars>>

\* the response call_deepseek_ocr returned is made of one to MaxTags region
\* tags, each followed by its text
ParseInit ==
    /\ arxiv_ids = {}
    /\ skip_deep = FALSE
    /\ PipelineStart
    /\ FetchIdle
    /\ OcrIdle
    /\ AnalyzeIdle
    /\ UploadIdle
    /\ ZoteroIdle
    /\ ReportIdle
    /\ TokenIdle
    /\ DirIdle
    /\ FigureIdle
    /\ \E n \in 1..MaxTags :
         tags \in [1..n -> {[type |-> ty, bbox |-> r.bbox, sep |-> r.sep, text |-> tx] :
                               ty \in TagTypes, r \in TagRects, tx \in TagTexts}]
    /\ ocr_text = Concat([i \in 1..Len(tags) |-> Render(tags[i])])
    /\ parse_pc = "response"
    /\ BackoffIdle
    /\ TextIdle
    /\ PoolIdle

ParseNext == ParseOcrResponse

ParseSpec == ParseInit /\ [][ParseNext]_vars

\* no text runs into the type of the tag after it
Separated ==
    \A i \in 1..(Len(tags) - 1) :
        tags[i].text = <<>> \/ tags[i].text[Len(tags[i].text)] \notin WordChars

Place(bucket, p) ==
    IF p \in Ids(bucket) THEN CHOOSE i \in 1..Len(bucket) : bucket[i].id = p ELSE 0

\* C31: the records of a bucket stand in the order in which the papers'
\* tasks completed: when a task has completed while another has not, its
\* record comes before the other's in any bucket that holds both.
C31_CompletionOrder ==
    \A p, q \in Papers :
        [](pc[p] = "done" /\ pc[q] # "done" =>
            [](/\ {p, q} \subseteq Ids(interested) => Place(interested, p) < Place(interested, q)
               /\ {p, q} \subseteq Ids(ignored) => Place(ignored, p) < Place(ignored, q)))

\* C32: the metadata stream is consumed record by record: a record on the
\* queue is taken and its task created whether or not the source has
\* delivered the other records or the end marker, and a task that was
\* created can take a free filter permit at once.
C32_Incremental ==
    /\ mainpc = "consume" /\ meta_queue # <<>> => ENABLED MainGet
    /\ \A p \in Papers :
         pc[p] = "filter_wait" /\ CanAcquire("filter") => ENABLED FilterEnter(p)

\* paper 1 has gone through all its stages while the record of paper 2 is
\* still to come and the end marker has not been put
C32_Witness ==
    /\ pc[1] = "done"
    /\ ret[1] = "interested"
    /\ 2 \in arxiv_ids
    /\ metaIdx = 2
    /\ ~metaEnded
    /\ pc[2] = "none"
    /\ mainpc = "consume"

\* =========================================== utils.download_pdf, its waits
\* utils.py 20-59: one pass of the loop.  A pass that fails sleeps
\* retry_delay * (attempt + 1) seconds when another pass follows and
\* returns False when none does.
BackoffAttempt ==
    /\ bk_pc = "loop"
    /\ bk_attempt < max_retries
    /\ \E out \in DownloadOutcomes :
         /\ bk_log' = Append(bk_log, out)
         /\ IF out = "ok"
              THEN /\ bk_pc' = "True"
                   /\ UNCHANGED <<bk_attempt, sleeps>>
              ELSE IF bk_attempt < max_retries - 1
                THEN /\ sleeps' = Append(sleeps, retry_delay * (bk_attempt + 1))
                     /\ bk_attempt' = bk_attempt + 1
                     /\ UNCHANGED bk_pc
                ELSE /\ bk_pc' = "False"
                     /\ UNCHANGED <<bk_attempt, sleeps>>
    /\ UNCHANGED <<max_retries, retry_delay>>
    /\ UNCHANGED pipelineVars
    /\ UNCHANGED backoffRest

\* download_pdf(arxiv_id, save_path, max_retries, retry_delay) called on a
\* path without a file
BackoffInit ==
    /\ arxiv_ids = {}
    /\ skip_deep = FALSE
    /\ PipelineStart
    /\ FetchIdle
    /\ OcrIdle
    /\ AnalyzeIdle
    /\ UploadIdle
    /\ ZoteroIdle
    /\ ReportIdle
    /\ TokenIdle
    /\ DirIdle
    /\ FigureIdle
    /\ ParseIdle
    /\ max_retries \in 1..MaxRetryBudget
    /\ retry_delay \in 1..MaxRetryDelay
    /\ bk_pc = "loop"
    /\ bk_attempt = 0
    /\ bk_log = <<>>
    /\ sleeps = <<>>
    /\ TextIdle
    /\ PoolIdle

BackoffNext == BackoffAttempt

BackoffSpec == BackoffInit /\ [][BackoffNext]_vars

\* C33: the waits between failed passes grow by a constant factor above 1,
\* each wait being that multiple of the one before it, and no wait follows
\* the last pass.
C33_ExponentialBackoff ==
    /\ \A i \in 2..Len(sleeps) :
         /\ sleeps[i] > sleeps[i - 1]
         /\ sleeps[i] * sleeps[1] = sleeps[2] * sleeps[i - 1]
    /\ bk_pc \in {"True", "False"} => Len(sleeps) = Len(bk_log) - 1

\* ============================ paper_analyzer.analyze_paper_content, prompt
\* f"\n\n=== Page {page_num} ===\n\n"
PageHeader(page_num) ==
    <<"\n", "\n", "=", "=", "=", " ", "P", "a", "g", "e", " ">>
        \o FormatInt(page_num) \o <<" ", "=", "=", "=", "\n", "\n">>

\* f"[{item['type']}] {item['text']}\n"
ItemLine(item) == <<"[">> \o item.type \o <<"]", " ">> \o item.text \o <<"\n">>

\* paper_analyzer.py 367-372: the text of all pages, in the order of the list
MergedText(pages) ==
    Concat([i \in 1..Len(pages) |->
               PageHeader(pages[i].page)
                   \o Concat([k \in 1..Len(pages[i].items) |-> ItemLine(pages[i].items[k])])])

\* "\n... (内容已截断)", its five CJK characters written by code point
TruncationNotice ==
    <<"\n", ".", ".", ".", " ", "(", "U+5185", "U+5BB9", "U+5DF2", "U+622A", "U+65AD", ")">>

\* paper_analyzer.py 374-375
Truncated(text, limit) ==
    IF Len(text) > limit THEN Take(text, limit) \o TruncationNotice ELSE text

\* analyze_paper_content up to the prompt
BuildPrompt ==
    /\ tx_pc = "called"
    /\ all_text' = Truncated(MergedText(ocr_pages), max_length)
    /\ tx_pc' = "prompt"
    /\ UNCHANGED <<ocr_pages, max_length>>
    /\ UNCHANGED pipelineVars
    /\ UNCHANGED textRest

\* the regions of a page: none, or one with a type and a text
PageItems ==
    {<<>>} \cup {<<[type |-> ty, text |-> tx]>> : ty \in TagTypes, tx \in TagTexts}

\* analyze_paper_content(ocr_results) is called with at least one page
\* (analyze_with_llm 902-908), the pages in ascending order
TextInit ==
    /\ arxiv_ids = {}
    /\ skip_deep = FALSE
    /\ PipelineStart
    /\ FetchIdle
    /\ OcrIdle
    /\ AnalyzeIdle
    /\ UploadIdle
    /\ ZoteroIdle
    /\ ReportIdle
    /\ TokenIdle
    /\ DirIdle
    /\ FigureIdle
    /\ ParseIdle
    /\ BackoffIdle
    /\ \E n \in 1..MaxPages : \E its \in [1..n -> PageItems] :
         ocr_pages = [i \in 1..n |-> [page |-> i, items |-> its[i]]]
    /\ max_length \in 1..MaxLength
    /\ all_text = <<>>
    /\ tx_pc = "called"
    /\ PoolIdle

TextNext == BuildPrompt

TextSpec == TextInit /\ [][TextNext]_vars

\* C34: the paper text in the prompt is never longer than max_length, and
\* when the text of the pages is longer than that the prompt holds exactly
\* its first max_length characters.
C34_TextBudget ==
    tx_pc = "prompt" =>
        /\ Len(all_text) <= max_length
        /\ Len(MergedText(ocr_pages)) > max_length
             => all_text = Take(MergedText(ocr_pages), max_length)

\* ===================================== process_paper_async, analyze retry
\* the analyze call the task leaves with this step returned None
LeavesAnalyzeWithNone(p) ==
    /\ pc[p] = "llm_call"
    /\ \/ pc'[p] = "llm_sleep"
       \/ pc'[p] \in {"note_call", "archive_call"} /\ deep_analysis_result'[p] = "None"

\* C36: analyze_with_llm returns None exactly when the OCR result holds no
\* page; a second analyze attempt is made only then, returns None again and
\* sends no request to the content analyzer, so no later attempt gives a
\* result after an earlier one gave none.
C36_AnalyzeRetry ==
    [][\A p \in Papers :
         /\ (pc[p] = "llm_call" /\ pc'[p] \notin {"llm_call", "done"})
              => (LeavesAnalyzeWithNone(p) <=> ocr_results = <<>>)
         /\ (pc[p] = "llm_call" /\ pc'[p] = "done") => ocr_results # <<>>
         /\ llm_attempt'[p] > 0
              => /\ ocr_results' = <<>>
                 /\ llm_requests' = 0
                 /\ deep_analysis_result'[p] = "None"
      ]_vars

\* the second analyze attempt was made and the task went on without a deep
\* analysis
C36_Witness ==
    \E p \in Papers :
        /\ llm_attempt[p] = 1
        /\ Count(started[p], "llm") = 2
        /\ pc[p] = "done"
        /\ ret[p] = "interested"
        /\ deep_analysis_result[p] = "None"
        /\ llm_requests = 0

\* ===================================== upload_paper_linked, parent items
\* zotero_ops.py 133-135: the parent items the passes of the archive call
\* have added to the library
ParentItems == Count(up_log, "key") + Count(up_log, "timeout_stored")

\* C37: over all passes of a paper's archive call at most one parent item
\* is created in the library.
C37_OneParentItem ==
    \A p \in Papers : Has(started[p], "archive") => ParentItems <= 1

\* ============================================ note and archive, no gate
\* the papers whose task is in the given stage call
InCallOf(position) == {p \in DOMAIN pc : pc[p] = position}

\* C38: the note call and the archive call are made outside every gate: a
\* task in them holds no permit, and a task whose note call has returned
\* submits its archive call and a task whose archive call has returned
\* finishes whatever the gates hold, so the papers in the archive step are
\* not bounded by a gate capacity.
C38_ArchiveUngated ==
    \A p \in DOMAIN pc :
        /\ pc[p] \in {"note_call", "archive_call"} => held[p] = {}
        /\ pc[p] = "note_call" => ENABLED NoteResume(p)
        /\ pc[p] = "archive_call" => ENABLED ArchiveResume(p)

\* every paper of the run is in its archive call at once, more papers than
\* the filter, the OCR or the analyze gate admits
C38_Witness ==
    /\ Cardinality(InCallOf("archive_call")) = NumGatePapers
    /\ NumGatePapers > filter_limit
    /\ NumGatePapers > ocr_limit
    /\ NumGatePapers > llm_limit

\* ===================================== OCR stage with the papers' page pools
\* pages of paper p whose process_single_page runs in a pool thread
PoolRunning(p) == {i \in PoolPages : px_state[p][i] = "running"}

\* paper_analyzer.py 812-833: extract_ocr_only up to the submission of the
\* page tasks; no image makes it return None at once, else every page
\* image is submitted to the pool of the call.
PoolSubmit(p) ==
    /\ pc[p] = "ocr_call"
    /\ fut[p] = "pending"
    /\ px_pc[p] = "idle"
    /\ \E n \in 0..MaxPoolPages :
         IF n = 0
           THEN /\ OcrResumeWith(p, "None")
                /\ UNCHANGED poolVars
           ELSE /\ px_pc' = [px_pc EXCEPT ![p] = "pool"]
                /\ px_state' = [px_state EXCEPT ![p] =
                                  [i \in PoolPages |-> IF i <= n THEN "queued" ELSE "none"]]
                /\ px_submits' = [px_submits EXCEPT ![p] =
                                  [i \in PoolPages |-> IF i <= n THEN @[i] + 1 ELSE @[i]]]
                /\ UNCHANGED px_attempt
                /\ UNCHANGED pipelineVars
    /\ UNCHANGED poolRest

\* every page is run at once
PoolPageStart_Unbounded(p, i) ==
    /\ px_pc[p] = "pool"
    /\ px_state[p][i] = "queued"
    /\ \A j \in PoolPages : j < i => px_state[p][j] # "queued"
    /\ px_state' = [px_state EXCEPT ![p][i] = "running"]
    /\ UNCHANGED <<px_pc, px_attempt, px_submits>>
    /\ UNCHANGED pipelineVars
    /\ UNCHANGED poolRest

\* ThreadPoolExecutor(max_workers=ocr_workers): a free thread of the
\* paper's pool takes the oldest queued page
PoolPageStart(p, i) ==
    /\ px_pc[p] = "pool"
    /\ px_state[p][i] = "queued"
    /\ Cardinality(PoolRunning(p)) < ocr_workers
    /\ \A j \in PoolPages : j < i => px_state[p][j] # "queued"
    /\ px_state' = [px_state EXCEPT ![p][i] = "running"]
    /\ UNCHANGED <<px_pc, px_attempt, px_submits>>
    /\ UNCHANGED pipelineVars
    /\ UNCHANGED poolRest

\* one request of call_deepseek_ocr for the page (131-161) and, when it is
\* the last, the rest of process_single_page
PoolPageAttempt(p, i) ==
    /\ px_pc[p] = "pool"
    /\ px_state[p][i] = "running"
    /\ px_attempt[p][i] < ocr_max_retries
    /\ \E settled \in {PageResult(px_attempt[p][i], out) # "retry" : out \in PageOutcomes} :
         IF ~settled
           THEN /\ px_attempt' = [px_attempt EXCEPT ![p][i] = @ + 1]
                /\ UNCHANGED px_state
           ELSE /\ px_state' = [px_state EXCEPT ![p][i] = "done"]
                /\ px_attempt' = [px_attempt EXCEPT ![p][i] = 0]
    /\ UNCHANGED <<px_pc, px_submits>>
    /\ UNCHANGED pipelineVars
    /\ UNCHANGED poolRest

\* paper_analyzer.py 833-869: the `with ThreadPoolExecutor` block is left
\* when every page task is over; extract_ocr_only returns its pages, or an
\* empty page list, or raises, and the task resumes and leaves the gate.
PoolReturn(p) ==
    /\ px_pc[p] = "pool"
    /\ \A i \in PoolPages : px_state[p][i] \in {"none", "done"}
    /\ px_pc' = [px_pc EXCEPT ![p] = "idle"]
    /\ \E out \in {"pages", "empty", "raise"} : OcrResumeWith(p, out)
    /\ UNCHANGED <<px_state, px_attempt, px_submits>>
    /\ UNCHANGED poolRest

\* the papers of the run whose OCR stage is looked into
PoolPapers == {p \in Papers : p <= 2}

\* the two papers of the run have passed the filter and the download and
\* wait for the OCR gate
PoolInit ==
    /\ arxiv_ids = PoolPapers
    /\ skip_deep = FALSE
    /\ mainpc = "gather"
    /\ metaIdx = Cardinality(PoolPapers) + 1
    /\ metaEnded = TRUE
    /\ meta_queue = <<>>
    /\ async_tasks = [i \in 1..Cardinality(PoolPapers) |-> i]
    /\ results = <<>>
    /\ interested = <<>>
    /\ ignored = <<>>
    /\ reported = FALSE
    /\ sem = [g \in Gates |-> Capacity(g)]
    /\ pc = [p \in Papers |-> IF p \in PoolPapers THEN "ocr_wait" ELSE "none"]
    /\ held = [p \in Papers |-> {}]
    /\ fut = [p \in Papers |-> "idle"]
    /\ attempt = [p \in Papers |-> 0]
    /\ analysis = [p \in Papers |-> IF p \in PoolPapers THEN "interested" ELSE "unset"]
    /\ download_success = [p \in Papers |-> IF p \in PoolPapers THEN "True" ELSE "unset"]
    /\ ocr_attempt = [p \in Papers |-> 0]
    /\ ocr_result = [p \in Papers |-> "None"]
    /\ llm_attempt = [p \in Papers |-> 0]
    /\ deep_analysis_result = [p \in Papers |-> "None"]
    /\ ret = [p \in Papers |-> "running"]
    /\ started = [p \in Papers |-> IF p \in PoolPapers THEN <<"filter", "download">> ELSE <<>>]
    /\ FetchIdle
    /\ OcrIdle
    /\ AnalyzeIdle
    /\ UploadIdle
    /\ ZoteroIdle
    /\ ReportIdle
    /\ TokenIdle
    /\ DirIdle
    /\ FigureIdle
    /\ ParseIdle
    /\ BackoffIdle
    /\ TextIdle
    /\ PoolIdle

PoolNext ==
    \E p \in PoolPapers :
        \/ OcrEnter(p)
        \/ PoolSubmit(p)
        \/ \E i \in PoolPages : PoolPageStart(p, i)
        \/ \E i \in PoolPages : PoolPageAttempt(p, i)
        \/ PoolReturn(p)
        \/ OcrWake(p)

PoolSpec == PoolInit /\ [][PoolNext]_vars

RECURSIVE SumRunning(_)
\* the page tasks running in the pools of the given papers
SumRunning(ps) ==
    IF ps = {} THEN 0
    ELSE LET p == CHOOSE q \in ps : TRUE
         IN Cardinality(PoolRunning(p)) + SumRunning(ps \ {p})

\* C39: over all papers at most ocr gate capacity times pool size page
\* tasks, and so OCR requests, are under way; pages run only for a paper
\* inside the OCR gate; every page is submitted to a pool at most once and
\* gets at most max_retries requests.
C39_OcrCallsBounded ==
    /\ SumRunning(Papers) <= ocr_limit * ocr_workers
    /\ \A p \in Papers :
         /\ Cardinality(PoolRunning(p)) <= ocr_workers
         /\ PoolRunning(p) # {} => pc[p] = "ocr_call" /\ "ocr" \in held[p]
         /\ \A i \in PoolPages :
              /\ px_submits[p][i] <= 1
              /\ px_attempt[p][i] < ocr_max_retries

\* as many page tasks are running as the gate and the pool allow, a third
\* page of the paper waits for a thread, and the page's last request is
\* under way
C39_Witness ==
    \E p \in Papers :
        /\ SumRunning(Papers) = ocr_limit * ocr_workers
        /\ \E i \in PoolPages : px_state[p][i] = "queued"
        /\ \E i \in PoolPages : px_attempt[p][i] = ocr_max_retries - 1
        /\ \E q \in Papers : pc[q] = "ocr_wait"


\* C35: when a call of download_pdf has returned False, the target path
\* does not hold a file larger than 10240 bytes; so of two calls in a row
\* on one path, a True after a False is never returned with zero requests.
C35_NoPartialFile ==
    /\ (dl_pc = "idle" /\ dl_returns # <<>>
          /\ dl_returns[Len(dl_returns)] = "False")
       => ~SizeNormal(save_path)
    /\ \A k \in 2..Len(dl_returns) :
         (dl_returns[k - 1] = "False" /\ dl_returns[k] = "True")
           => dl_requests[k] > 0


\* C40: in the full document every interested record handed to
\* generate_daily_report is listed in the per-batch detail section,
\* whatever summarize_papers_batch returned for its batch.
C40_AllListed ==
    rp_pc = "done" /\ digest.kind = "full" =>
        \A i \in 1..Len(rp_interested) : Has(digest.listed, rp_interested[i].id)
====
